---- MODULE Spec2Model ----
(***************************************************************************)
(* Model of the weather backend: the request handlers of                   *)
(* controllers/weatherController.js, the WeatherModel / SearchHistory      *)
(* classes of models/Weather.js, and the two MongoDB collections           *)
(* (searchHistory, favorites) they read and write.                         *)
(*                                                                         *)
(* Every request runs as an asynchronous task.  A handler is cut at its    *)
(* `await` points: one action per stretch of code between two awaits.      *)
(* The upstream weather API and the document store are black boxes whose   *)
(* answers (payloads, HTTP failures, storage failures) are drawn with \E.  *)
(*                                                                         *)
(* Strings that the code inspects (city names, descriptions, identifiers,  *)
(* coordinates) are sequences of one-character strings; strings that the   *)
(* code only passes around (messages) are TLA+ strings.                    *)
(***************************************************************************)
EXTENDS Integers, Sequences, FiniteSets, TLC

(***************************************************************************)
(* Bounds of the model.                                                    *)
(***************************************************************************)
MaxRequests == 2
MaxNow == 1
MaxForecastLen == 41
MaxCards == 4
MaxRefreshing == 3
MaxSearches == 3

(***************************************************************************)
(* Program constants.                                                      *)
(***************************************************************************)
HistoryLimit == 10
ForecastSlice == 40
ForecastStride == 8
ObjectIdHexLen == 24
MsPerMinute == 60000
SecondsPerDay == 86400
ForecastStepSeconds == 10800

Reqs == {"r1", "r2"}

(***************************************************************************)
(* Generic helpers on sequences and optional keys.                         *)
(***************************************************************************)
Has(obj, k) == k \in DOMAIN obj

Range(s) == {s[i] : i \in DOMAIN s}

Reverse(s) == [i \in 1..Len(s) |-> s[Len(s) + 1 - i]]

\* Array.prototype.slice(0, n)
Slice0(s, n) == IF Len(s) <= n THEN s ELSE SubSeq(s, 1, n)

\* Restriction of a record to some of its keys.
Restrict(f, K) == [k \in K |-> f[k]]

(***************************************************************************)
(* Strings as sequences of characters.                                     *)
(***************************************************************************)
IsSpace(c) == c = " "

\* String.prototype.trim: remove leading and trailing white space.
RECURSIVE TrimLeft(_)
TrimLeft(s) ==
  IF s = <<>> THEN <<>>
  ELSE IF IsSpace(Head(s)) THEN TrimLeft(Tail(s)) ELSE s

Trim(s) == Reverse(TrimLeft(Reverse(TrimLeft(s))))

\* String.prototype.toUpperCase on one character.
ToUpperChar(c) ==
  CASE c = "a" -> "A" [] c = "b" -> "B" [] c = "c" -> "C" [] c = "d" -> "D"
    [] c = "e" -> "E" [] c = "f" -> "F" [] c = "n" -> "N" [] c = "p" -> "P"
    [] c = "r" -> "R" [] c = "u" -> "U" [] c = "i" -> "I"
    [] OTHER -> c

\* s.charAt(0).toUpperCase() + s.slice(1)
Capitalize(s) == IF s = <<>> THEN <<>> ELSE <<ToUpperChar(Head(s))>> \o Tail(s)

(***************************************************************************)
(* JavaScript value helpers.  A missing property is a missing key; numbers *)
(* that the upstream API sends as floats (temperatures, wind speed) are    *)
(* carried in tenths, so that Math.round has something to round.           *)
(***************************************************************************)
\* obj.k || ''   (k holds a string, or is missing)
StrOr(obj, k) == IF Has(obj, k) THEN obj[k] ELSE <<>>

\* obj.k || 0    (k holds a number, or is missing)
NumOr(obj, k) == IF Has(obj, k) THEN obj[k] ELSE 0

\* obj.k?.j || 0
NumAt(obj, k, j) == IF Has(obj, k) THEN NumOr(obj[k], j) ELSE 0

\* Math.round of a number given in tenths: the nearest integer, halves up.
MathRound(t10) == (t10 + 5) \div 10

(***************************************************************************)
(* models/Weather.js: class WeatherModel                                   *)
(***************************************************************************)
StringKeys == {"city", "country", "description", "icon"}

\* constructor(data = {}); `now` is what `new Date()` returns.
WeatherModel(data, now) ==
  [ city        |-> StrOr(data, "city"),
    country     |-> StrOr(data, "country"),
    temperature |-> NumOr(data, "temperature"),
    feelsLike   |-> NumOr(data, "feelsLike"),
    description |-> StrOr(data, "description"),
    icon        |-> StrOr(data, "icon"),
    humidity    |-> NumOr(data, "humidity"),
    windSpeed   |-> NumOr(data, "windSpeed"),
    pressure    |-> NumOr(data, "pressure"),
    timestamp   |-> IF Has(data, "timestamp") THEN data.timestamp ELSE now ]

\* isValid(): city && temperature !== undefined && description && icon
isValid(m) == m.city # <<>> /\ m.description # <<>> /\ m.icon # <<>>

\* Mutant: the empty values are removed before the city is trimmed.
toDocumentTrimmedLast(m) ==
  LET doc == [ city        |-> m.city,
               country     |-> m.country,
               temperature |-> m.temperature,
               description |-> m.description,
               icon        |-> m.icon,
               humidity    |-> m.humidity,
               windSpeed   |-> m.windSpeed,
               pressure    |-> m.pressure,
               timestamp   |-> m.timestamp ]
      keep == {k \in DOMAIN doc : ~(k \in StringKeys /\ doc[k] = <<>>)}
  IN [k \in keep |-> IF k = "city" THEN Trim(doc[k]) ELSE doc[k]]

\* toDocument(): the listed keys, minus those whose value is '' (the
\* constructor leaves no undefined or null behind).
toDocument(m) ==
  LET doc == [ city        |-> Trim(m.city),
               country     |-> m.country,
               temperature |-> m.temperature,
               description |-> m.description,
               icon        |-> m.icon,
               humidity    |-> m.humidity,
               windSpeed   |-> m.windSpeed,
               pressure    |-> m.pressure,
               timestamp   |-> m.timestamp ]
      keep == {k \in DOMAIN doc : ~(k \in StringKeys /\ doc[k] = <<>>)}
  IN Restrict(doc, keep)

\* `http://openweathermap.org/img/wn/${icon}@2x.png`
IconUrl(icon) == <<"http://openweathermap.org/img/wn/", icon, "@2x.png">>

\* toFrontend(units = 'metric')
toFrontend(m, units) ==
  [ city        |-> m.city,
    country     |-> m.country,
    temperature |-> m.temperature,
    feelsLike   |-> m.feelsLike,
    description |-> Capitalize(m.description),
    iconUrl     |-> IconUrl(m.icon),
    humidity    |-> m.humidity,
    windSpeed   |-> m.windSpeed,
    pressure    |-> m.pressure,
    units       |-> units ]

\* First weather condition: apiData.weather?.[0]?.k || ''
FirstWeather(apiData, k) ==
  IF Has(apiData, "weather") /\ apiData.weather # <<>>
  THEN StrOr(apiData.weather[1], k)
  ELSE <<>>

\* Mutant: the nested objects are read without optional chaining, so a
\* payload that lacks one of them raises as well.
fromApiResponseThrowsUnchained(response) ==
  \/ ~Has(response, "data")
  \/ ~Has(response.data, "sys")
  \/ ~Has(response.data, "main")
  \/ ~Has(response.data, "wind")
  \/ ~Has(response.data, "weather")
  \/ response.data.weather = <<>>

\* fromApiResponse(response.data) raises: `apiData.name` when the body of
\* the resolved response is null; every deeper read is optionally chained.
fromApiResponseThrows(response) == ~Has(response, "data")

\* The TypeError of reading a property of null.
TypeError == [message |-> "Cannot read properties of null"]

\* static fromApiResponse(apiData)
fromApiResponse(apiData, now) ==
  WeatherModel(
    [ country     |-> IF Has(apiData, "sys") THEN StrOr(apiData.sys, "country") ELSE <<>>,
      temperature |-> MathRound(NumAt(apiData, "main", "temp")),
      feelsLike   |-> MathRound(NumAt(apiData, "main", "feels_like")),
      description |-> FirstWeather(apiData, "description"),
      icon        |-> FirstWeather(apiData, "icon"),
      humidity    |-> NumAt(apiData, "main", "humidity"),
      windSpeed   |-> NumAt(apiData, "wind", "speed"),
      pressure    |-> NumAt(apiData, "main", "pressure") ]
    @@ (IF Has(apiData, "name") THEN [city |-> apiData.name] ELSE <<>>),
    now)

(***************************************************************************)
(* ObjectId (bson): twelve bytes, written as 24 hexadecimal digits.  An    *)
(* ObjectId value is the sequence of its 24 nibbles.                       *)
(***************************************************************************)
HexChars == <<"0", "1", "2", "3", "4", "5", "6", "7", "8", "9",
              "a", "b", "c", "d", "e", "f">>

UpperHexChars == <<"0", "1", "2", "3", "4", "5", "6", "7", "8", "9",
                   "A", "B", "C", "D", "E", "F">>

IsHexChar(c) == \E n \in 1..16 : HexChars[n] = c \/ UpperHexChars[n] = c

HexValue(c) == (CHOOSE n \in 1..16 : HexChars[n] = c \/ UpperHexChars[n] = c) - 1

\* ObjectId.isValid(id) for a string: 24 hexadecimal characters.
ObjectIdIsValid(id) ==
  Len(id) = ObjectIdHexLen /\ \A i \in 1..Len(id) : IsHexChar(id[i])

\* new ObjectId(id) for a valid string
NewObjectId(id) == [i \in 1..ObjectIdHexLen |-> HexValue(id[i])]

\* ObjectId.prototype.toString(): lower-case hexadecimal
ObjectIdToString(oid) == [i \in 1..ObjectIdHexLen |-> HexChars[oid[i] + 1]]

\* The n-th identifier the driver generates (identifiers are unique).
GenObjectId(n) == [i \in 1..ObjectIdHexLen |-> IF i = ObjectIdHexLen THEN n % 16 ELSE 0]

(***************************************************************************)
(* models/Weather.js: class SearchHistory extends WeatherModel             *)
(***************************************************************************)
\* constructor(data): super(data); this._id = data._id ? new ObjectId(data._id) : null
SearchHistory(data, now) ==
  WeatherModel(data, now) @@
  (IF Has(data, "_id") THEN [_id |-> data._id] ELSE <<>>)

\* units === 'metric' ? '°C' : '°F'
UnitSymbol(units) == IF units = "metric" THEN "°C" ELSE "°F"

\* Date.prototype.toLocaleString('en-IN', {hour, minute, day, month}):
\* the timestamp (milliseconds) cut to the minute.
FormatTime(ts) == ts \div MsPerMinute

\* SearchHistory.toFrontend(units = 'metric')
historyToFrontend(h, units) ==
  [ city        |-> h.city,
    temperature |-> <<h.temperature, UnitSymbol(units)>>,
    description |-> Capitalize(h.description),
    iconUrl     |-> IconUrl(h.icon),
    time        |-> FormatTime(h.timestamp) ]
  @@ (IF Has(h, "_id") THEN [id |-> ObjectIdToString(h._id)] ELSE <<>>)

(***************************************************************************)
(* The collaborators' answers.                                             *)
(***************************************************************************)
Pune == <<"P", "u", "n", "e">>

\* Request inputs.
CityInputs == {Pune, <<"p", "u", "n", "e">>}

\* The unit systems of the upstream API are metric, imperial and standard.
QueryInputs ==
  {[units |-> "metric"], [units |-> "imperial"], [units |-> "standard"], <<>>}

\* const { units = 'metric' } = req.query
UnitsOf(query) == IF Has(query, "units") THEN query.units ELSE "metric"

\* Current-weather payloads of the upstream API: a complete one, and one
\* with no name, no readings and an empty weather-condition list.
FullPayload ==
  [ name    |-> Pune,
    sys     |-> [country |-> <<"I", "N">>],
    main    |-> [temp |-> 304, feels_like |-> 335, humidity |-> 70, pressure |-> 1008],
    weather |-> << [description |-> <<"r", "a", "i", "n">>, icon |-> <<"1", "0", "d">>] >>,
    wind    |-> [speed |-> 36] ]

BarePayload == [weather |-> <<>>]

Payloads == {FullPayload, BarePayload}

\* Failures of an axios call: the upstream answered with an error status
\* (with or without a message in its body), or did not answer at all.
AxiosError(status, data) ==
  [ message  |-> "Request failed",
    response |-> [status |-> status, data |-> data] ]

NetworkError == [message |-> "Network Error"]

UpstreamErrors ==
  {AxiosError(st, [message |-> "upstream message"]) : st \in {401, 404, 429, 503}}
  \cup {AxiosError(503, <<>>), NetworkError}

\* What an awaited upstream call comes back with.
Resolved(payloads) == {[data |-> d] : d \in payloads}

Rejected(errors) == {[error |-> e] : e \in errors}

\* A resolved upstream call whose body is the JSON value null.
NullBody == [status |-> 200]

\* Failure of a storage call.
StorageError == [message |-> "storage failure"]

(***************************************************************************)
(* controllers/weatherController.js: handleError                           *)
(***************************************************************************)
Response(status, body) == [status |-> status, body |-> body]

Failure(status, msg) == Response(status, [success |-> FALSE, error |-> msg])

\* Mutant: every failure answered 500, as the handler did before it told
\* the upstream statuses apart.
handleErrorAlways500(error) ==
  Failure(500, IF Has(error, "response") /\ Has(error.response.data, "message")
               THEN error.response.data.message
               ELSE <<"Server Error: ", error.message>>)

handleError(error) ==
  IF Has(error, "response")
  THEN LET statusCode == error.response.status
           message == IF Has(error.response.data, "message")
                      THEN error.response.data.message
                      ELSE error.message
       IN CASE statusCode = 401 -> Failure(401, "Invalid API key")
            [] statusCode = 404 -> Failure(404, "Location/Resource not found")
            [] statusCode = 429 -> Failure(429, "Too many requests. Try again later")
            [] OTHER -> Failure(statusCode, message)
  ELSE Failure(500, <<"Server Error: ", error.message>>)

(***************************************************************************)
(* State.                                                                  *)
(***************************************************************************)
VARIABLES
  favorites,  \* collection 'favorites': documents in natural (insertion) order
  history,    \* collection 'searchHistory': documents in natural order
  nextId,     \* number of identifiers the driver has generated
  now,        \* the clock read by `new Date()`, in milliseconds
  served,     \* number of requests accepted so far
  pc,         \* per request: the await it is suspended at
  req,        \* per request: handler and input (params, query, body)
  local,      \* per request: the handler's local constants
  res,        \* per request: the response sent (status and JSON body)
  calls,      \* per request: upstream and storage calls issued, in order
  loading,    \* FavoritesList: its `loading` state
  cards,      \* FavoritesList: identifiers of the favorites it shows (props.favorites)
  removing,   \* FavoritesList: identifiers whose DELETE fetch is in flight
  appLoading,  \* App.js: `loading`, a weather search is going on
  weatherData, \* App.js: the weather shown, NoWeatherData before the first
  appForecast, \* App.js: the forecast shown
  searches,    \* App.js: the fetchWeather calls in the order they were issued
  forecasts,   \* App.js: the cities of the fetchForecast calls in flight
  locating,    \* SearchForm.js: position requests the browser has not answered
  appHistory,  \* App.js: `history`, as the set of the cities of its items
  listing,     \* App.js: number of fetchHistory calls in flight
  refreshing  \* App: number of fetchFavorites calls in flight

vars == <<favorites, history, nextId, now, served, pc, req, local, res, calls,
          loading, cards, removing, refreshing,
          appLoading, weatherData, appForecast, searches, forecasts, locating, appHistory, listing>>

store == <<favorites, history, nextId>>

\* The state of the browser side.
ui == <<loading, cards, removing, refreshing,
        appLoading, weatherData, appForecast, searches, forecasts, locating, appHistory, listing>>

\* The state of the App component but its favorites.
app == <<appLoading, weatherData, appForecast, searches, forecasts, locating, appHistory, listing>>

\* The state of the favorites list.
favoritesList == <<loading, cards, removing, refreshing>>

\* useState(null)
NoWeatherData == <<>>

\* The App component before any search.
NoApp ==
  /\ appLoading = FALSE
  /\ weatherData = NoWeatherData
  /\ appForecast = <<>>
  /\ searches = <<>>
  /\ forecasts = <<>>
  /\ locating = 0
  /\ appHistory = {}
  /\ listing = 0

\* The state of the server side.
backend == <<favorites, history, nextId, now, served, pc, req, local, res, calls>>

\* The page before any favorite is shown.
NoPage ==
  /\ loading = FALSE
  /\ cards = {}
  /\ removing = {}
  /\ refreshing = 0
  /\ NoApp

NoReq == [op |-> "none"]
NoRes == [status |-> 0]

Init ==
  /\ favorites = <<>>
  /\ history = <<>>
  /\ nextId = 1
  /\ now = 0
  /\ served = 0
  /\ pc = [r \in Reqs |-> "idle"]
  /\ req = [r \in Reqs |-> NoReq]
  /\ local = [r \in Reqs |-> <<>>]
  /\ res = [r \in Reqs |-> NoRes]
  /\ calls = [r \in Reqs |-> <<>>]
  /\ NoPage

(***************************************************************************)
(* Steps shared by the handlers.                                           *)
(***************************************************************************)
\* Requests are told apart by the slot they occupy; a new request takes the
\* first free slot.
FirstFree(r) == pc[r] = "idle" /\ (r = "r2" => pc["r1"] # "idle")

\* Express hands a request to a handler, which runs up to its first await.
Accept(r, request, locals, call, at) ==
  /\ FirstFree(r)
  /\ served' = served + 1
  /\ req' = [req EXCEPT ![r] = request]
  /\ local' = [local EXCEPT ![r] = locals]
  /\ calls' = [calls EXCEPT ![r] = <<call>>]
  /\ pc' = [pc EXCEPT ![r] = at]
  /\ UNCHANGED <<store, now, res, ui>>

\* A handler that answers before its first await.
Reject(r, request, response) ==
  /\ FirstFree(r)
  /\ served' = served + 1
  /\ req' = [req EXCEPT ![r] = request]
  /\ res' = [res EXCEPT ![r] = response]
  /\ pc' = [pc EXCEPT ![r] = "done"]
  /\ UNCHANGED <<store, now, local, calls, ui>>

\* The handler issues one more call and suspends at `at`.
Await(r, locals, call, at) ==
  /\ local' = [local EXCEPT ![r] = locals]
  /\ calls' = [calls EXCEPT ![r] = Append(@, call)]
  /\ pc' = [pc EXCEPT ![r] = at]
  /\ UNCHANGED <<now, served, req, res, ui>>

\* res.status(..).json(..): the handler answers and ends.
Send(r, response) ==
  /\ res' = [res EXCEPT ![r] = response]
  /\ pc' = [pc EXCEPT ![r] = "done"]
  /\ UNCHANGED <<now, served, req, calls, ui>>

\* catch (error) { handleError(res, error) }
Catch(r, error) ==
  /\ local' = [local EXCEPT ![r] = [error |-> error] @@ @]
  /\ Send(r, handleError(error))

\* The same, the handler having bound `locals` before the failure.
CatchFrom(r, locals, error) ==
  /\ local' = [local EXCEPT ![r] = [error |-> error] @@ locals]
  /\ Send(r, handleError(error))

\* collection.findOne({ city }) finds something
ExistsCity(coll, city) == \E i \in DOMAIN coll : Has(coll[i], "city") /\ coll[i].city = city

\* Mutant: a unique index on city makes the insert of a second document of
\* the same city a no-op.
insertOneUnique(coll, doc) ==
  IF Has(doc, "city") /\ ExistsCity(coll, doc.city) THEN coll
  ELSE Append(coll, [_id |-> GenObjectId(nextId)] @@ doc)

\* collection.insertOne(doc): the driver generates the identifier.
insertOne(coll, doc) == Append(coll, [_id |-> GenObjectId(nextId)] @@ doc)

(***************************************************************************)
(* 1. getWeatherByCity   GET /api/weather/:city                            *)
(***************************************************************************)
getWeatherByCity(r, city, query) ==
  Accept(r, [op |-> "getWeatherByCity", params |-> [city |-> city], query |-> query],
         [units |-> UnitsOf(query)], "axios.get", "weather")

\* axios.get resolved or rejected; on success the record is built and the
\* insert into 'searchHistory' is issued.
getWeatherByCityFetched(r, answer) ==
  /\ pc[r] = "weather"
  /\ req[r].op = "getWeatherByCity"
  /\ UNCHANGED store
  /\ IF Has(answer, "error")
     THEN Catch(r, answer.error)
     ELSE LET locals == [response |-> answer] @@ local[r] IN
          IF fromApiResponseThrows(answer)
          THEN CatchFrom(r, locals, TypeError)
          ELSE Await(r, [weatherModel |-> fromApiResponse(answer.data, now)] @@ locals,
                     "insertOne", "insert")

\* Mutant: the lookup replaces the history entry of the same city, if there
\* is one, instead of adding to the entries.
getWeatherByCityReplaced(r, ok) ==
  /\ pc[r] = "insert"
  /\ req[r].op = "getWeatherByCity"
  /\ IF ok
     THEN /\ history' = insertOne(
                 SelectSeq(history, LAMBDA d : d.city # toDocument(local[r].weatherModel).city),
                 toDocument(local[r].weatherModel))
          /\ nextId' = nextId + 1
          /\ Send(r, Response(200, [success |-> TRUE,
                     data |-> toFrontend(local[r].weatherModel, local[r].units)]))
          /\ UNCHANGED <<favorites, local>>
     ELSE Catch(r, StorageError) /\ UNCHANGED store

\* Mutant: a rejected insertOne is swallowed and the lookup answers all the same.
getWeatherByCityInsertSwallowed(r, ok) ==
  /\ pc[r] = "insert"
  /\ req[r].op = "getWeatherByCity"
  /\ history' = IF ok THEN insertOne(history, toDocument(local[r].weatherModel)) ELSE history
  /\ nextId' = IF ok THEN nextId + 1 ELSE nextId
  /\ Send(r, Response(200, [success |-> TRUE,
             data |-> toFrontend(local[r].weatherModel, local[r].units)]))
  /\ UNCHANGED <<favorites, local>>

\* Mutant: the record is kept in a variable the requests share, so the
\* insert stores the record another request has built since.
getWeatherByCityInsertedShared(r, ok) ==
  /\ pc[r] = "insert"
  /\ req[r].op = "getWeatherByCity"
  /\ IF ok
     THEN LET others == {q \in Reqs \ {r} : Has(local[q], "weatherModel")}
              weatherModel == IF others = {} THEN local[r].weatherModel
                              ELSE local[CHOOSE q \in others : TRUE].weatherModel
          IN /\ history' = insertOne(history, toDocument(weatherModel))
             /\ nextId' = nextId + 1
             /\ Send(r, Response(200, [success |-> TRUE,
                        data |-> toFrontend(local[r].weatherModel, local[r].units)]))
             /\ UNCHANGED <<favorites, local>>
     ELSE Catch(r, StorageError) /\ UNCHANGED store

\* insertOne resolved (ok) or rejected.
getWeatherByCityInserted(r, ok) ==
  /\ pc[r] = "insert"
  /\ req[r].op = "getWeatherByCity"
  /\ IF ok
     THEN /\ history' = insertOne(history, toDocument(local[r].weatherModel))
          /\ nextId' = nextId + 1
          /\ Send(r, Response(200, [success |-> TRUE,
                     data |-> toFrontend(local[r].weatherModel, local[r].units)]))
          /\ UNCHANGED <<favorites, local>>
     ELSE Catch(r, StorageError) /\ UNCHANGED store

(***************************************************************************)
(* 2. getCurrentLocation   GET /api/weather/current?lat=&lon=              *)
(***************************************************************************)
Digits == <<"0", "1", "2", "3", "4", "5", "6", "7", "8", "9">>

IsDigit(c) == \E n \in DOMAIN Digits : Digits[n] = c

\* The longest prefix of s made of digits.
RECURSIVE DigitPrefix(_)
DigitPrefix(s) ==
  IF s = <<>> \/ ~IsDigit(Head(s)) THEN <<>>
  ELSE <<Head(s)>> \o DigitPrefix(Tail(s))

\* What is left of s behind its first n characters.
Drop(s, n) == SubSeq(s, n + 1, Len(s))

StartsWith(s, p) == Len(s) >= Len(p) /\ SubSeq(s, 1, Len(p)) = p

Infinity == <<"I", "n", "f", "i", "n", "i", "t", "y">>

NaN == [nan |-> TRUE]

\* parseFloat(string): leading white space is skipped, then the longest
\* prefix that is a decimal literal (sign, digits, fraction) or Infinity is
\* the number and whatever follows it is ignored; NaN when there is no such
\* prefix.  The number is given by its sign, integer and fraction digits.
\* `consumed` is the number of characters behind the white space that
\* spell the number.
ParsePrefix(s) ==
  LET t     == TrimLeft(s)
      sign  == IF t # <<>> /\ Head(t) \in {"+", "-"} THEN <<Head(t)>> ELSE <<>>
      u     == Drop(t, Len(sign))
      int   == DigitPrefix(u)
      v     == Drop(u, Len(int))
      frac  == IF v # <<>> /\ Head(v) = "." THEN DigitPrefix(Tail(v)) ELSE <<>>
      point == IF v # <<>> /\ Head(v) = "." /\ (int # <<>> \/ frac # <<>>) THEN 1 ELSE 0
  IN IF int # <<>> \/ frac # <<>>
     THEN [ sign |-> sign, int |-> int, frac |-> frac,
            consumed |-> Len(sign) + Len(int) + point + Len(frac) ]
     ELSE IF StartsWith(u, Infinity)
          THEN [sign |-> sign, infinite |-> TRUE, consumed |-> Len(sign) + Len(Infinity)]
          ELSE NaN

\* parseFloat on an optional query value; parseFloat(undefined) is NaN.
parseFloat(query, k) ==
  IF ~Has(query, k) THEN NaN
  ELSE LET n == ParsePrefix(query[k])
       IN IF Has(n, "nan") THEN NaN ELSE Restrict(n, DOMAIN n \ {"consumed"})

isNaN(x) == Has(x, "nan")

\* Coordinates a client may send: numbers, a number followed by other
\* characters, a word, and a missing longitude.
CoordInputs ==
  { [lat |-> <<"1", "8">>, lon |-> <<"7", "3">>],
    [lat |-> <<"-", "1", "8", ".", "5">>, lon |-> <<" ", "7", "3">>],
    [lat |-> <<"1", "8", "x">>, lon |-> <<"7", "3">>],
    [lat |-> <<"n", "o">>, lon |-> <<"7", "3">>],
    [lat |-> <<"1", "8">>] }

getCurrentLocation(r, query) ==
  LET latitude == parseFloat(query, "lat")
      longitude == parseFloat(query, "lon")
      request == [op |-> "getCurrentLocation", query |-> query]
  IN IF isNaN(latitude) \/ isNaN(longitude)
     THEN Reject(r, request, Failure(400, "Coords required"))
     ELSE Accept(r, request,
                 [units |-> UnitsOf(query), latitude |-> latitude, longitude |-> longitude],
                 "axios.get", "weather")

\* Mutant: a lookup whose upstream call failed still records the attempt,
\* as an entry with no city and no readings.
getCurrentLocationFetchedRecorded(r, answer) ==
  /\ pc[r] = "weather"
  /\ req[r].op = "getCurrentLocation"
  /\ IF Has(answer, "error")
     THEN /\ history' = insertOne(history, toDocument(WeatherModel(<<>>, now)))
          /\ nextId' = nextId + 1
          /\ UNCHANGED favorites
          /\ Catch(r, answer.error)
     ELSE /\ UNCHANGED store
          /\ Await(r, [weatherModel |-> fromApiResponse(answer.data, now),
                       response |-> answer] @@ local[r],
                   "insertOne", "insert")

getCurrentLocationFetched(r, answer) ==
  /\ pc[r] = "weather"
  /\ req[r].op = "getCurrentLocation"
  /\ UNCHANGED store
  /\ IF Has(answer, "error")
     THEN Catch(r, answer.error)
     ELSE LET locals == [response |-> answer] @@ local[r] IN
          IF fromApiResponseThrows(answer)
          THEN CatchFrom(r, locals, TypeError)
          ELSE Await(r, [weatherModel |-> fromApiResponse(answer.data, now)] @@ locals,
                     "insertOne", "insert")

getCurrentLocationInserted(r, ok) ==
  /\ pc[r] = "insert"
  /\ req[r].op = "getCurrentLocation"
  /\ IF ok
     THEN /\ history' = insertOne(history, toDocument(local[r].weatherModel))
          /\ nextId' = nextId + 1
          /\ Send(r, Response(200, [success |-> TRUE,
                     data |-> toFrontend(local[r].weatherModel, local[r].units)]))
          /\ UNCHANGED <<favorites, local>>
     ELSE Catch(r, StorageError) /\ UNCHANGED store

(***************************************************************************)
(* 3. getForecast   GET /api/weather/forecast/:city                        *)
(***************************************************************************)
\* A forecast entry of the upstream list; its temperature tells its index.
ForecastItem(i) ==
  [ dt      |-> i * ForecastStepSeconds,
    main    |-> [temp |-> 10 * i + 4],
    weather |-> << [description |-> <<"r", "a", "i", "n">>, icon |-> <<"1", "0", "d">>] >> ]

\* The upstream forecast of n entries (indices 0 .. n-1).
ForecastPayload(n) ==
  [ list |-> [i \in 1..n |-> ForecastItem(i - 1)],
    city |-> [name |-> Pune] ]

\* A forecast whose entry carries no weather condition, and one with no list.
BrokenForecasts ==
  { [ list |-> << [dt |-> 0, main |-> [temp |-> 4], weather |-> <<>>] >>,
      city |-> [name |-> Pune] ],
    [ city |-> [name |-> Pune] ] }

ForecastPayloads == {ForecastPayload(n) : n \in 0..MaxForecastLen} \cup BrokenForecasts

\* Mutant: the filter without the slice.
DailyUnsliced(list) ==
  LET idx == {i \in 1..Len(list) : (i - 1) % ForecastStride = 0}
  IN [k \in 1..Cardinality(idx) |-> list[(k - 1) * ForecastStride + 1]]

\* list.slice(0, 40).filter((_, i) => i % 8 === 0)
Daily(list) ==
  LET cut == Slice0(list, ForecastSlice)
      idx == {i \in 1..Len(cut) : (i - 1) % ForecastStride = 0}
  IN [k \in 1..Cardinality(idx) |-> cut[(k - 1) * ForecastStride + 1]]

\* new Date(dt * 1000).toLocaleDateString('en-US', {weekday, day}): the day.
FormatDate(dt) == dt \div SecondsPerDay

\* The arrow function of daily.map; it throws on an entry with no weather.
ForecastEntryThrows(item) == ~Has(item, "weather") \/ item.weather = <<>>

ForecastEntry(item) ==
  [ date        |-> FormatDate(item.dt),
    temp        |-> MathRound(item.main.temp),
    icon        |-> IconUrl(item.weather[1].icon),
    description |-> item.weather[1].description ]

getForecast(r, city, query) ==
  Accept(r, [op |-> "getForecast", params |-> [city |-> city], query |-> query],
         [units |-> UnitsOf(query)], "axios.get", "forecast")

\* The handler's own catch: whatever failed, it answers 500 'Forecast failed'.
getForecastCatch(r, error) ==
  /\ local' = [local EXCEPT ![r] = [error |-> error] @@ @]
  /\ Send(r, Failure(500, "Forecast failed"))

getForecastFetched(r, answer) ==
  /\ pc[r] = "forecast"
  /\ UNCHANGED store
  /\ IF Has(answer, "data")
     THEN IF ~Has(answer.data, "list")
             \/ \E i \in DOMAIN Daily(answer.data.list) :
                   ForecastEntryThrows(Daily(answer.data.list)[i])
          THEN getForecastCatch(r, [message |-> "TypeError"])
          ELSE /\ Send(r, Response(200,
                      [ success  |-> TRUE,
                        city     |-> answer.data.city.name,
                        forecast |-> [i \in DOMAIN Daily(answer.data.list) |->
                                        ForecastEntry(Daily(answer.data.list)[i])] ]))
               /\ local' = [local EXCEPT ![r] = [list |-> answer.data.list] @@ @]
     ELSE getForecastCatch(r, answer.error)

(***************************************************************************)
(* 4. Favorites: getFavorites, addFavorite, removeFavorite                 *)
(***************************************************************************)
getFavorites(r, query) ==
  Accept(r, [op |-> "getFavorites", query |-> query],
         [units |-> UnitsOf(query)], "find", "favorites")

\* f => ({...f, id: f._id.toString(), temperature: f.temperature, iconUrl: ...})
FormatFavorite(f) ==
  [id |-> ObjectIdToString(f._id)]
  @@ (IF Has(f, "icon") THEN [iconUrl |-> IconUrl(f.icon)] ELSE <<>>)
  @@ f

getFavoritesFound(r, ok) ==
  /\ pc[r] = "favorites"
  /\ UNCHANGED store
  /\ IF ok
     THEN /\ Send(r, Response(200,
                  [ success   |-> TRUE,
                    favorites |-> [i \in DOMAIN favorites |-> FormatFavorite(favorites[i])],
                    units     |-> local[r].units ]))
          /\ UNCHANGED local
     ELSE Catch(r, StorageError)

addFavorite(r, city) ==
  Accept(r, [op |-> "addFavorite", body |-> [city |-> city]],
         [city |-> city], "findOne", "exists")

\* findOne resolved or rejected; unless the city is there, the weather is asked for.
addFavoriteChecked(r, ok) ==
  /\ pc[r] = "exists"
  /\ UNCHANGED store
  /\ IF ok
     THEN IF ExistsCity(favorites, local[r].city)
          THEN /\ Send(r, Response(200,
                       [success |-> FALSE, message |-> "Already in favorites"]))
               /\ UNCHANGED local
          ELSE Await(r, local[r], "axios.get", "weather")
     ELSE Catch(r, StorageError)

\* Mutant: a failed upstream call is tried again, once.
addFavoriteFetchedRetrying(r, answer) ==
  /\ pc[r] = "weather"
  /\ req[r].op = "addFavorite"
  /\ UNCHANGED store
  /\ IF Has(answer, "data")
     THEN Await(r, [model |-> fromApiResponse(answer.data, now)] @@ local[r],
                "insertOne", "insert")
     ELSE IF Len(calls[r]) < 3
          THEN Await(r, local[r], "axios.get", "weather")
          ELSE Catch(r, answer.error)

addFavoriteFetched(r, answer) ==
  /\ pc[r] = "weather"
  /\ req[r].op = "addFavorite"
  /\ UNCHANGED store
  /\ IF Has(answer, "error")
     THEN Catch(r, answer.error)
     ELSE LET locals == [response |-> answer] @@ local[r] IN
          IF fromApiResponseThrows(answer)
          THEN CatchFrom(r, locals, TypeError)
          ELSE Await(r, [model |-> fromApiResponse(answer.data, now)] @@ locals,
                     "insertOne", "insert")

addFavoriteInserted(r, ok) ==
  /\ pc[r] = "insert"
  /\ req[r].op = "addFavorite"
  /\ IF ok
     THEN /\ favorites' = insertOne(favorites, toDocument(local[r].model))
          /\ nextId' = nextId + 1
          /\ Send(r, Response(200, [success |-> TRUE, message |-> "Added to favorites"]))
          /\ UNCHANGED <<history, local>>
     ELSE Catch(r, StorageError) /\ UNCHANGED store

\* Identifiers a client may send: those of the first documents, one of no
\* document in either letter case, and malformed ones.
HexString(n) == ObjectIdToString(GenObjectId(n))

IdInputs ==
  { HexString(1), HexString(2), HexString(10),
    [HexString(10) EXCEPT ![ObjectIdHexLen] = "A"],
    [HexString(1) EXCEPT ![ObjectIdHexLen] = "g"],
    <<"1">> }

\* collection.findOne({ _id }) finds something
ExistsId(coll, oid) == \E i \in DOMAIN coll : coll[i]._id = oid

\* Mutant: the filter is left out of the delete, which empties the collection.
deleteOneUnfiltered(coll, oid) == <<>>

\* collection.deleteOne({ _id })
deleteOne(coll, oid) == SelectSeq(coll, LAMBDA d : d._id # oid)

\* Mutant: no ObjectId.isValid check; new ObjectId(id) throws on a malformed
\* identifier and the catch answers.
removeFavoriteUnchecked(r, id) ==
  LET request == [op |-> "removeFavorite", params |-> [id |-> id]]
  IN IF ~ObjectIdIsValid(id)
     THEN Reject(r, request, handleError([message |-> "BSONError"]))
     ELSE Accept(r, request, [objectId |-> NewObjectId(id)], "findOne", "lookup")

removeFavorite(r, id) ==
  LET request == [op |-> "removeFavorite", params |-> [id |-> id]]
  IN IF ~ObjectIdIsValid(id)
     THEN Reject(r, request, Failure(400, "Invalid favorite ID"))
     ELSE Accept(r, request, [objectId |-> NewObjectId(id)], "findOne", "lookup")

\* findOne({ _id }) resolved or rejected.
removeFavoriteLooked(r, ok) ==
  /\ pc[r] = "lookup"
  /\ UNCHANGED store
  /\ IF ok
     THEN IF ExistsId(favorites, local[r].objectId)
          THEN Await(r, local[r], "deleteOne", "delete")
          ELSE Await(r, local[r], "find", "listIds")
     ELSE Catch(r, StorageError)

\* Mutant: the `return` before the 404 response forgotten; the handler
\* answers and goes on to the delete, which answers again.
removeFavoriteListedNoReturn(r, ok) ==
  /\ pc[r] = "listIds"
  /\ UNCHANGED store
  /\ IF ok
     THEN /\ res' = [res EXCEPT ![r] = Failure(404, "Favorite not found")]
          /\ calls' = [calls EXCEPT ![r] = Append(@, "deleteOne")]
          /\ pc' = [pc EXCEPT ![r] = "delete"]
          /\ UNCHANGED <<now, served, req, local, ui>>
     ELSE Catch(r, StorageError)

\* The find that lists all identifiers for the log resolved or rejected.
removeFavoriteListed(r, ok) ==
  /\ pc[r] = "listIds"
  /\ UNCHANGED store
  /\ IF ok
     THEN Send(r, Failure(404, "Favorite not found")) /\ UNCHANGED local
     ELSE Catch(r, StorageError)

\* deleteOne resolved or rejected.
removeFavoriteDeleted(r, ok) ==
  /\ pc[r] = "delete"
  /\ IF ok
     THEN /\ favorites' = deleteOne(favorites, local[r].objectId)
          /\ Send(r, Response(200, [success |-> TRUE, message |-> "Removed favorite"]))
          /\ UNCHANGED <<history, nextId, local>>
     ELSE Catch(r, StorageError) /\ UNCHANGED store

(***************************************************************************)
(* 5. Search history: getSearchHistory, clearHistory                       *)
(***************************************************************************)
\* s with x put behind the last entry whose timestamp is not older.
RECURSIVE InsertDesc(_, _)
InsertDesc(s, x) ==
  IF s = <<>> THEN <<x>>
  ELSE IF Head(s).timestamp >= x.timestamp
       THEN <<Head(s)>> \o InsertDesc(Tail(s), x)
       ELSE <<x>> \o s

\* find({}).sort({ timestamp: -1 }): newest first; entries of equal
\* timestamp keep the order in which the scan met them.
RECURSIVE SortDesc(_)
SortDesc(s) ==
  IF s = <<>> THEN <<>>
  ELSE InsertDesc(SortDesc(SubSeq(s, 1, Len(s) - 1)), s[Len(s)])

\* Mutant: the limit forgotten.
Unlimited(s) == s

\* .limit(10)
Limit(s) == Slice0(s, HistoryLimit)

\* The order in which the store meets documents of equal sort key is not
\* fixed: it may be the natural order or its reverse.
Scans(coll) == {coll, Reverse(coll)}

getSearchHistory(r, query) ==
  Accept(r, [op |-> "getSearchHistory", query |-> query],
         [units |-> UnitsOf(query)], "find", "history")

\* find().sort().limit().toArray() resolved, having met the documents in
\* the order `scan`, or rejected.
getSearchHistoryFound(r, ok, scan) ==
  /\ pc[r] = "history"
  /\ UNCHANGED store
  /\ IF ok
     THEN LET found == Limit(SortDesc(scan))
          IN /\ Send(r, Response(200,
                     [ success |-> TRUE,
                       history |-> [i \in DOMAIN found |->
                          historyToFrontend(SearchHistory(found[i], now), local[r].units)] ]))
             /\ local' = [local EXCEPT ![r] = [history |-> found] @@ @]
     ELSE Catch(r, StorageError)

clearHistory(r) ==
  Accept(r, [op |-> "clearHistory"], <<>>, "deleteMany", "clear")

\* Mutant: deleteOne({}) in place of deleteMany({}).
deleteFirst(coll) == IF coll = <<>> THEN <<>> ELSE Tail(coll)

\* collection.deleteMany({})
deleteMany(coll) == <<>>

clearHistoryDeleted(r, ok) ==
  /\ pc[r] = "clear"
  /\ IF ok
     THEN /\ history' = deleteMany(history)
          /\ Send(r, Response(200,
                  [ success |-> TRUE,
                    message |-> <<"Cleared ", Len(history), " history items">> ]))
          /\ UNCHANGED <<favorites, nextId, local>>
     ELSE Catch(r, StorageError) /\ UNCHANGED store

(***************************************************************************)
(* 6. clearAllData: exported by the controller, registered on no route.    *)
(***************************************************************************)
clearAllData(r) ==
  Accept(r, [op |-> "clearAllData"], <<>>, "deleteMany", "clearAllHistory")

\* deleteMany({}) on 'searchHistory' resolved, and the one on 'favorites' is
\* issued, or rejected.
clearAllDataHistoryDeleted(r, ok) ==
  /\ pc[r] = "clearAllHistory"
  /\ IF ok
     THEN /\ history' = deleteMany(history)
          /\ Await(r, [searchHistoryResult |-> [deletedCount |-> Len(history)]],
                   "deleteMany", "clearAllFavorites")
          /\ UNCHANGED <<favorites, nextId>>
     ELSE Catch(r, StorageError) /\ UNCHANGED store

\* deleteMany({}) on 'favorites' resolved or rejected.
clearAllDataFavoritesDeleted(r, ok) ==
  /\ pc[r] = "clearAllFavorites"
  /\ IF ok
     THEN /\ favorites' = deleteMany(favorites)
          /\ Send(r, Response(200,
                  [ success |-> TRUE,
                    message |-> "Database cleared",
                    deleted |-> [ searchHistory |-> local[r].searchHistoryResult.deletedCount,
                                  favorites     |-> Len(favorites) ] ]))
          /\ UNCHANGED <<history, nextId, local>>
     ELSE Catch(r, StorageError) /\ UNCHANGED store

(***************************************************************************)
(* The environment: the clock, and the end of a request.                   *)
(***************************************************************************)
\* Time passes: the clock shows the next millisecond.
Tick ==
  /\ now < MaxNow
  /\ now' = now + 1
  /\ UNCHANGED <<store, served, pc, req, local, res, calls, ui>>

\* The response has been delivered; the task is gone.
Finish(r) ==
  /\ pc[r] = "done"
  /\ pc' = [pc EXCEPT ![r] = "idle"]
  /\ req' = [req EXCEPT ![r] = NoReq]
  /\ local' = [local EXCEPT ![r] = <<>>]
  /\ res' = [res EXCEPT ![r] = NoRes]
  /\ calls' = [calls EXCEPT ![r] = <<>>]
  /\ UNCHANGED <<store, now, served, ui>>

(***************************************************************************)
(* routes/weather.js: the route table.  A path is the sequence of its      *)
(* segments below the mount point /api/weather.  The router tries the      *)
(* routes in the order of their registration and the first whose method    *)
(* and pattern match handles the request (no handler calls next()).        *)
(***************************************************************************)
LowerLetters ==
  <<"a", "b", "c", "d", "e", "f", "g", "h", "i", "j", "k", "l", "m",
    "n", "o", "p", "q", "r", "s", "t", "u", "v", "w", "x", "y", "z">>

UpperLetters ==
  <<"A", "B", "C", "D", "E", "F", "G", "H", "I", "J", "K", "L", "M",
    "N", "O", "P", "Q", "R", "S", "T", "U", "V", "W", "X", "Y", "Z">>

\* String.prototype.toLowerCase, character by character.
LowerOf == [c \in Range(UpperLetters) |->
              LowerLetters[CHOOSE n \in DOMAIN UpperLetters : UpperLetters[n] = c]]

ToLowerChar(c) == IF c \in DOMAIN LowerOf THEN LowerOf[c] ELSE c

ToLower(s) == [i \in DOMAIN s |-> ToLowerChar(s[i])]

HistorySegment == <<"h", "i", "s", "t", "o", "r", "y">>
FavoritesSegment == <<"f", "a", "v", "o", "r", "i", "t", "e", "s">>
CurrentSegment == <<"c", "u", "r", "r", "e", "n", "t">>
ForecastSegment == <<"f", "o", "r", "e", "c", "a", "s", "t">>

\* A segment of a route pattern: a literal, or a named parameter.
Literal(s) == [literal |-> s]
Param(name) == [param |-> name]

Route(method, path, handler) == [method |-> method, path |-> path, handler |-> handler]

\* Mutant: the catch-all registered first, as it was before the routes were
\* reordered.
RoutesCatchAllFirst ==
  << Route("GET", <<Param("city")>>, "getWeatherByCity"),
     Route("GET", <<Literal(HistorySegment)>>, "getSearchHistory"),
     Route("DELETE", <<Literal(HistorySegment)>>, "clearHistory"),
     Route("GET", <<Literal(FavoritesSegment)>>, "getFavorites"),
     Route("POST", <<Literal(FavoritesSegment)>>, "addFavorite"),
     Route("DELETE", <<Literal(FavoritesSegment), Param("id")>>, "removeFavorite"),
     Route("GET", <<Literal(CurrentSegment)>>, "getCurrentLocation"),
     Route("GET", <<Literal(ForecastSegment), Param("city")>>, "getForecast") >>

\* createWeatherRoutes: the routes in the order of their registration.
Routes ==
  << Route("GET", <<Literal(HistorySegment)>>, "getSearchHistory"),
     Route("DELETE", <<Literal(HistorySegment)>>, "clearHistory"),
     Route("GET", <<Literal(FavoritesSegment)>>, "getFavorites"),
     Route("POST", <<Literal(FavoritesSegment)>>, "addFavorite"),
     Route("DELETE", <<Literal(FavoritesSegment), Param("id")>>, "removeFavorite"),
     Route("GET", <<Literal(CurrentSegment)>>, "getCurrentLocation"),
     Route("GET", <<Literal(ForecastSegment), Param("city")>>, "getForecast"),
     Route("GET", <<Param("city")>>, "getWeatherByCity") >>

\* A pattern matches a path of as many segments: a literal matches the
\* segment spelling it in either letter case (the router is not
\* case-sensitive), a parameter matches any segment that is not empty.
MatchSegment(pat, seg) ==
  IF Has(pat, "literal")
  THEN /\ Len(seg) = Len(pat.literal)
       /\ \A i \in DOMAIN seg : ToLowerChar(seg[i]) = ToLowerChar(pat.literal[i])
  ELSE seg # <<>>

MatchPath(pattern, path) ==
  /\ Len(pattern) = Len(path)
  /\ \A i \in DOMAIN pattern : MatchSegment(pattern[i], path[i])

MatchRoute(route, method, path) == route.method = method /\ MatchPath(route.path, path)

\* req.params: the segments that the parameters of the pattern matched.
ParamsOf(route, path) ==
  LET named == {i \in DOMAIN route.path : Has(route.path[i], "param")}
  IN [name \in {route.path[i].param : i \in named} |->
        path[CHOOSE i \in named : route.path[i].param = name]]

\* The first route that matches, if any does.
Matching(method, path) == {i \in DOMAIN Routes : MatchRoute(Routes[i], method, path)}

FirstMatch(method, path) ==
  Routes[CHOOSE i \in Matching(method, path) : \A j \in Matching(method, path) : i <= j]

\* No route matches: the framework answers 404 'Cannot <method> <path>'.
NoRoute(r, method, path) ==
  Reject(r, [op |-> "finalhandler", method |-> method, path |-> path],
         Response(404, <<"Cannot ", method, path>>))

\* The router hands the request to the handler of the first matching route.
Dispatch(r, method, path, query, body) ==
  IF Matching(method, path) = {} THEN NoRoute(r, method, path)
  ELSE LET route == FirstMatch(method, path)
           params == ParamsOf(route, path)
       IN CASE route.handler = "getSearchHistory" -> getSearchHistory(r, query)
            [] route.handler = "clearHistory" -> clearHistory(r)
            [] route.handler = "getFavorites" -> getFavorites(r, query)
            [] route.handler = "addFavorite" -> addFavorite(r, body.city)
            [] route.handler = "removeFavorite" -> removeFavorite(r, params.id)
            [] route.handler = "getCurrentLocation" -> getCurrentLocation(r, query)
            [] route.handler = "getForecast" -> getForecast(r, params.city, query)
            [] route.handler = "getWeatherByCity" -> getWeatherByCity(r, params.city, query)

(***************************************************************************)
(* Spec: the whole backend, every routed handler, two requests at a time.  *)
(* Forecast lengths and the clock are explored by SpecForecast and         *)
(* SpecHistory.                                                            *)
(***************************************************************************)
Answers == Resolved(Payloads) \cup Rejected(UpstreamErrors)

SomeQueries == {<<>>, [units |-> "imperial"]}

SomeForecasts == {ForecastPayload(9)} \cup BrokenForecasts

Next ==
  \E r \in Reqs :
    \/ /\ served < MaxRequests
       /\ \/ \E city \in CityInputs, query \in SomeQueries : getWeatherByCity(r, city, query)
          \/ \E query \in SomeQueries, coords \in CoordInputs :
               getCurrentLocation(r, query @@ coords)
          \/ \E city \in CityInputs, query \in SomeQueries : getForecast(r, city, query)
          \/ \E query \in SomeQueries : getFavorites(r, query)
          \/ \E city \in CityInputs : addFavorite(r, city)
          \/ \E id \in IdInputs : removeFavorite(r, id)
          \/ \E query \in SomeQueries : getSearchHistory(r, query)
          \/ clearHistory(r)
    \/ \E answer \in Answers : getWeatherByCityFetched(r, answer)
    \/ \E ok \in BOOLEAN : getWeatherByCityInserted(r, ok)
    \/ \E answer \in Answers : getCurrentLocationFetched(r, answer)
    \/ \E ok \in BOOLEAN : getCurrentLocationInserted(r, ok)
    \/ \E answer \in Resolved(SomeForecasts) \cup Rejected(UpstreamErrors) :
         getForecastFetched(r, answer)
    \/ \E ok \in BOOLEAN : getFavoritesFound(r, ok)
    \/ \E ok \in BOOLEAN : addFavoriteChecked(r, ok)
    \/ \E answer \in Answers : addFavoriteFetched(r, answer)
    \/ \E ok \in BOOLEAN : addFavoriteInserted(r, ok)
    \/ \E ok \in BOOLEAN : removeFavoriteLooked(r, ok)
    \/ \E ok \in BOOLEAN : removeFavoriteListed(r, ok)
    \/ \E ok \in BOOLEAN : removeFavoriteDeleted(r, ok)
    \/ \E ok \in BOOLEAN, scan \in Scans(history) : getSearchHistoryFound(r, ok, scan)
    \/ \E ok \in BOOLEAN : clearHistoryDeleted(r, ok)
    \/ Finish(r)

Spec == Init /\ [][Next]_vars

(***************************************************************************)
(* SpecFavorites: the three favorites handlers, two requests at a time.    *)
(***************************************************************************)
NextFavorites ==
  \E r \in Reqs :
    \/ /\ served < MaxRequests + 1
       /\ \/ \E query \in SomeQueries : getFavorites(r, query)
          \/ \E city \in CityInputs : addFavorite(r, city)
          \/ \E id \in IdInputs : removeFavorite(r, id)
    \/ \E ok \in BOOLEAN : getFavoritesFound(r, ok)
    \/ \E ok \in BOOLEAN : addFavoriteChecked(r, ok)
    \/ \E answer \in Answers : addFavoriteFetched(r, answer)
    \/ \E ok \in BOOLEAN : addFavoriteInserted(r, ok)
    \/ \E ok \in BOOLEAN : removeFavoriteLooked(r, ok)
    \/ \E ok \in BOOLEAN : removeFavoriteListed(r, ok)
    \/ \E ok \in BOOLEAN : removeFavoriteDeleted(r, ok)
    \/ Finish(r)

SpecFavorites == Init /\ [][NextFavorites]_vars

(***************************************************************************)
(* SpecHistory: lookups by city, getSearchHistory and clearHistory, two    *)
(* requests at a time, with the clock running.  The history collection     *)
(* starts empty or holding the documents of earlier lookups.               *)
(***************************************************************************)
\* The collection after k lookups answered with FullPayload, one in each of
\* the k milliseconds before the clock showed 0.
Looked(k) ==
  [j \in 1..k |->
     [_id |-> GenObjectId(j)] @@ toDocument(fromApiResponse(FullPayload, j - k - 1))]

InitHistory ==
  /\ \E k \in {0, HistoryLimit - 1, HistoryLimit} :
       /\ history = Looked(k)
       /\ nextId = k + 1
  /\ favorites = <<>>
  /\ now = 0
  /\ served = 0
  /\ pc = [r \in Reqs |-> "idle"]
  /\ req = [r \in Reqs |-> NoReq]
  /\ local = [r \in Reqs |-> <<>>]
  /\ res = [r \in Reqs |-> NoRes]
  /\ calls = [r \in Reqs |-> <<>>]
  /\ NoPage

HistoryAnswers == Resolved({FullPayload}) \cup Rejected({NetworkError})

NextHistory ==
  \/ Tick
  \/ \E r \in Reqs :
       \/ /\ served < MaxRequests + 1
          /\ \/ getWeatherByCity(r, Pune, <<>>)
             \/ \E query \in QueryInputs : getSearchHistory(r, query)
             \/ clearHistory(r)
       \/ \E answer \in HistoryAnswers : getWeatherByCityFetched(r, answer)
       \/ \E ok \in BOOLEAN : getWeatherByCityInserted(r, ok)
       \/ \E ok \in BOOLEAN, scan \in Scans(history) : getSearchHistoryFound(r, ok, scan)
       \/ \E ok \in BOOLEAN : clearHistoryDeleted(r, ok)
       \/ Finish(r)

SpecHistory == InitHistory /\ [][NextHistory]_vars

(***************************************************************************)
(* SpecForecast: getForecast on upstream lists of every length up to       *)
(* MaxForecastLen.                                                         *)
(***************************************************************************)
NextForecast ==
  \E r \in Reqs :
    \/ /\ served < MaxRequests
       /\ \E query \in SomeQueries : getForecast(r, Pune, query)
    \/ \E answer \in Resolved(ForecastPayloads) \cup Rejected(UpstreamErrors) :
         getForecastFetched(r, answer)
    \/ Finish(r)

SpecForecast == Init /\ [][NextForecast]_vars

(***************************************************************************)
(* SpecRoutes: requests arrive as method and path and go through the route *)
(* table; the handlers run on as in Spec.                                  *)
(***************************************************************************)
Methods == {"GET", "POST", "DELETE"}

\* Paths a client may ask for: each literal of the table alone (one of them
\* in capitals), a city, and two-segment paths below favorites and forecast
\* (a path of two segments matches no GET route but the forecast's).
PathInputs ==
  { <<HistorySegment>>, <<FavoritesSegment>>, <<CurrentSegment>>, <<ForecastSegment>>,
    << <<"H", "i", "s", "t", "o", "r", "y">> >>, <<Pune>>,
    <<FavoritesSegment, HexString(1)>>, <<FavoritesSegment, HistorySegment>>,
    <<ForecastSegment, HistorySegment>> }

RouteQueries == {[lat |-> <<"1", "8">>, lon |-> <<"7", "3">>]}

RouteBodies == {[city |-> Pune]}

RouteAnswers == Resolved({FullPayload}) \cup Rejected({NetworkError})

\* A call that request r awaits returns, and the handler runs on.
Resume(r) ==
  \/ \E answer \in RouteAnswers : getWeatherByCityFetched(r, answer)
  \/ \E ok \in BOOLEAN : getWeatherByCityInserted(r, ok)
  \/ \E answer \in RouteAnswers : getCurrentLocationFetched(r, answer)
  \/ \E ok \in BOOLEAN : getCurrentLocationInserted(r, ok)
  \/ \E answer \in Resolved({ForecastPayload(9)}) : getForecastFetched(r, answer)
  \/ \E ok \in BOOLEAN : getFavoritesFound(r, ok)
  \/ \E ok \in BOOLEAN : addFavoriteChecked(r, ok)
  \/ \E answer \in RouteAnswers : addFavoriteFetched(r, answer)
  \/ \E ok \in BOOLEAN : addFavoriteInserted(r, ok)
  \/ \E ok \in BOOLEAN : removeFavoriteLooked(r, ok)
  \/ \E ok \in BOOLEAN : removeFavoriteListed(r, ok)
  \/ \E ok \in BOOLEAN : removeFavoriteDeleted(r, ok)
  \/ \E ok \in BOOLEAN, scan \in Scans(history) : getSearchHistoryFound(r, ok, scan)
  \/ \E ok \in BOOLEAN : clearHistoryDeleted(r, ok)

\* A request arrives.
Arrive(r) ==
  \E method \in Methods, path \in PathInputs, query \in RouteQueries, body \in RouteBodies :
    Dispatch(r, method, path, query, body)

NextRoutes ==
  \E r \in Reqs :
    \/ served < MaxRequests + 1 /\ Arrive(r)
    \/ Resume(r)
    \/ Finish(r)

SpecRoutes == Init /\ [][NextRoutes]_vars

(***************************************************************************)
(* SpecServe: as SpecRoutes, with every awaited call returning sooner or   *)
(* later (the upstream API and the store answer or fail, they do not hang) *)
(* and every response delivered.                                           *)
(***************************************************************************)
NextServe ==
  \E r \in Reqs :
    \/ served < MaxRequests /\ Arrive(r)
    \/ Resume(r)
    \/ Finish(r)

SpecServe ==
  /\ Init /\ [][NextServe]_vars
  /\ \A r \in Reqs : WF_vars(Resume(r)) /\ WF_vars(Finish(r))

(***************************************************************************)
(* SpecFavoritesInTurn: addFavorite requests one after the other; a        *)
(* request is accepted only when every earlier one has been answered.      *)
(***************************************************************************)
AllAnswered == \A q \in Reqs : pc[q] \in {"idle", "done"}

NextFavoritesInTurn ==
  \E r \in Reqs :
    \/ /\ served < MaxRequests + 1
       /\ AllAnswered
       /\ \E city \in CityInputs : addFavorite(r, city)
    \/ \E ok \in BOOLEAN : addFavoriteChecked(r, ok)
    \/ \E answer \in Answers : addFavoriteFetched(r, answer)
    \/ \E ok \in BOOLEAN : addFavoriteInserted(r, ok)
    \/ Finish(r)

SpecFavoritesInTurn == Init /\ [][NextFavoritesInTurn]_vars

(***************************************************************************)
(* frontend/src/components/FavoritesList.js.  The component shows one card *)
(* per favorite, each with a heart button that removes the favorite.  Its  *)
(* DELETE fetch and the refresh of the list (App.js: fetchFavorites) are   *)
(* black boxes that settle one way or the other.                           *)
(***************************************************************************)
\* The favorites the server may list.
CardIds == {HexString(n) : n \in 1..MaxCards}

\* <button disabled={loading}> of the card of favorite id
HeartDisabled(id) == loading

\* {loading ? hourglass : heart}
HeartLabel(id) == IF loading THEN "hourglass" ELSE "heart"

\* A click on the heart button of a card (a disabled button takes no
\* click): handleToggleFavorite(id, e) up to its await.
handleToggleFavorite(id) ==
  /\ id \in cards
  /\ ~HeartDisabled(id)
  /\ refreshing < MaxRefreshing
  /\ loading' = TRUE
  /\ removing' = removing \cup {id}
  /\ UNCHANGED <<cards, refreshing, backend, app>>

\* The DELETE fetch settled: resolved (whatever the status of the response),
\* and onToggleFavorite starts the refresh of the list, or rejected; either
\* way `finally` resets loading.
handleToggleFavoriteSettled(id, ok) ==
  /\ id \in removing
  /\ removing' = removing \ {id}
  /\ refreshing' = IF ok THEN refreshing + 1 ELSE refreshing
  /\ loading' = FALSE
  /\ UNCHANGED <<cards, backend, app>>

\* What a refresh of the list comes back with.
FavoritesAnswers == {[favorites |-> c] : c \in SUBSET CardIds} \cup {[error |-> NetworkError]}

\* App.js fetchFavorites settled: setFavorites(data.favorites) on success.
fetchFavoritesSettled(answer) ==
  /\ refreshing > 0
  /\ refreshing' = refreshing - 1
  /\ cards' = IF Has(answer, "favorites") THEN answer.favorites ELSE cards
  /\ UNCHANGED <<loading, removing, backend, app>>

(***************************************************************************)
(* SpecFavoritesList: the favorites list in the browser, showing any of    *)
(* the lists the server may hold.                                          *)
(***************************************************************************)
InitFavoritesList ==
  /\ favorites = <<>>
  /\ history = <<>>
  /\ nextId = 1
  /\ now = 0
  /\ served = 0
  /\ pc = [r \in Reqs |-> "idle"]
  /\ req = [r \in Reqs |-> NoReq]
  /\ local = [r \in Reqs |-> <<>>]
  /\ res = [r \in Reqs |-> NoRes]
  /\ calls = [r \in Reqs |-> <<>>]
  /\ loading = FALSE
  /\ cards \in SUBSET CardIds
  /\ removing = {}
  /\ refreshing = 0
  /\ NoApp

NextFavoritesList ==
  \/ \E id \in CardIds : handleToggleFavorite(id)
  \/ \E id \in CardIds, ok \in BOOLEAN : handleToggleFavoriteSettled(id, ok)
  \/ \E answer \in FavoritesAnswers : fetchFavoritesSettled(answer)

SpecFavoritesList == InitFavoritesList /\ [][NextFavoritesList]_vars

(***************************************************************************)
(* frontend/src/App.js with components/SearchForm.js and HistoryList.js:   *)
(* the weather search in the browser.  The fetches are black boxes that    *)
(* settle with one of the answers the server can give, or fail.            *)
(***************************************************************************)
Goa == <<"G", "o", "a">>

\* The cities a user searches for.
AppCities == {Pune, Goa}

\* What SearchForm passes for a search by position: `current?lat=X&lon=Y`.
CurrentQuery == <<"current", "?lat=", "18", "&lon=", "73">>

\* query.includes('current')
IncludesCurrent(query) == \E i \in DOMAIN query : query[i] = "current"

\* The upstream reading of a city, in tenths of a degree.
UpstreamTemp(city) == IF city = Pune THEN 304 ELSE 281

\* data.data of a successful lookup of the city.
WeatherOf(city) ==
  toFrontend(fromApiResponse([FullPayload EXCEPT !.name = city,
                                                 !.main.temp = UpstreamTemp(city)], 0),
             "metric")

\* data.data of a successful lookup of a position that has no name.
Nameless == toFrontend(fromApiResponse(BarePayload, 0), "metric")

\* A fetch that rejects, or whose body is not JSON.
FetchError == [thrown |-> "TypeError: Failed to fetch"]

\* What the fetch of fetchWeather(query) settles with.
WeatherAnswers(query) ==
  { [success |-> TRUE, data |-> d] :
      d \in IF IncludesCurrent(query) THEN {WeatherOf(Pune), Nameless}
                                      ELSE {WeatherOf(query)} }
  \cup {[success |-> FALSE, error |-> "Location/Resource not found"], FetchError}

\* data.forecast of a successful forecast of the city: two days.
ForecastOf(city) ==
  LET daily == Daily(ForecastPayload(ForecastStride + 1).list)
  IN [i \in DOMAIN daily |->
        [ForecastEntry(daily[i]) EXCEPT !.temp = @ + MathRound(UpstreamTemp(city))]]

\* What the fetch of fetchForecast(city) settles with.
ForecastAnswers(city) ==
  { [success |-> TRUE, city |-> city, forecast |-> ForecastOf(city)],
    [success |-> FALSE, error |-> "Forecast failed"], FetchError }

\* What the fetch of fetchHistory() settles with.
HistoryListAnswers ==
  {[success |-> TRUE, history |-> s] : s \in SUBSET AppCities} \cup {FetchError}

\* data.success
Successful(answer) == Has(answer, "success") /\ answer.success

\* fetchWeather(query) up to its await: setLoading(true) and the fetch.
fetchWeather(query) ==
  /\ Len(searches) < MaxSearches
  /\ appLoading' = TRUE
  /\ searches' = Append(searches, [query |-> query, at |-> "fetch"])

\* SearchForm: handleSubmit with a city in the input; the input and the
\* button are disabled while `loading`.
handleSubmit(city) ==
  /\ ~appLoading
  /\ fetchWeather(city)
  /\ UNCHANGED <<weatherData, appForecast, forecasts, locating, appHistory, listing,
                 favoritesList, backend>>

\* SearchForm: a click on 'My Location' (disabled while `loading`) asks the
\* browser for the position.
getCurrentLocationClicked ==
  /\ ~appLoading
  /\ Len(searches) + locating < MaxSearches
  /\ locating' = locating + 1
  /\ UNCHANGED <<appLoading, weatherData, appForecast, searches, forecasts, appHistory,
                 listing, favoritesList, backend>>

\* The browser has the position: the success callback searches for it.
positionFound ==
  /\ locating > 0
  /\ locating' = locating - 1
  /\ fetchWeather(CurrentQuery)
  /\ UNCHANGED <<weatherData, appForecast, forecasts, appHistory, listing,
                 favoritesList, backend>>

\* The browser has no position: the error callback alerts.
positionFailed ==
  /\ locating > 0
  /\ locating' = locating - 1
  /\ UNCHANGED <<appLoading, weatherData, appForecast, searches, forecasts, appHistory,
                 listing, favoritesList, backend>>

\* A click on an item of the history list: handleCityClick(item).
handleCityClick(city) ==
  /\ city \in appHistory
  /\ fetchWeather(city)
  /\ UNCHANGED <<weatherData, appForecast, forecasts, locating, appHistory, listing,
                 favoritesList, backend>>

\* The fetch of the i-th fetchWeather call settled: on success the data is
\* shown and fetchHistory and, for a named city, fetchForecast are started;
\* `finally` resets loading.
fetchWeatherSettled(i, answer) ==
  /\ i \in DOMAIN searches
  /\ searches[i].at = "fetch"
  /\ answer \in WeatherAnswers(searches[i].query)
  /\ searches' = [searches EXCEPT
                    ![i] = [query |-> @.query, at |-> "done", answer |-> answer]]
  /\ IF Successful(answer)
     THEN /\ weatherData' = answer.data
          /\ listing' = listing + 1
          /\ forecasts' = IF answer.data.city # <<>>
                          THEN Append(forecasts, answer.data.city)
                          ELSE forecasts
     ELSE UNCHANGED <<weatherData, listing, forecasts>>
  /\ appLoading' = FALSE
  /\ UNCHANGED <<appForecast, locating, appHistory, favoritesList, backend>>

\* The fetch of a fetchForecast call settled: setForecast on success only.
fetchForecastSettled(j, answer) ==
  /\ j \in DOMAIN forecasts
  /\ answer \in ForecastAnswers(forecasts[j])
  /\ forecasts' = SubSeq(forecasts, 1, j - 1) \o SubSeq(forecasts, j + 1, Len(forecasts))
  /\ appForecast' = IF Successful(answer) THEN answer.forecast ELSE appForecast
  /\ UNCHANGED <<appLoading, weatherData, searches, locating, appHistory, listing,
                 favoritesList, backend>>

\* The fetch of a fetchHistory call settled: setHistory on success only.
fetchHistorySettled(answer) ==
  /\ listing > 0
  /\ listing' = listing - 1
  /\ appHistory' = IF Successful(answer) THEN answer.history ELSE appHistory
  /\ UNCHANGED <<appLoading, weatherData, appForecast, searches, forecasts, locating,
                 favoritesList, backend>>

(***************************************************************************)
(* SpecApp: the page after it has mounted, its first fetchHistory in       *)
(* flight and no favorite shown; up to MaxSearches searches.               *)
(***************************************************************************)
InitApp ==
  /\ favorites = <<>>
  /\ history = <<>>
  /\ nextId = 1
  /\ now = 0
  /\ served = 0
  /\ pc = [r \in Reqs |-> "idle"]
  /\ req = [r \in Reqs |-> NoReq]
  /\ local = [r \in Reqs |-> <<>>]
  /\ res = [r \in Reqs |-> NoRes]
  /\ calls = [r \in Reqs |-> <<>>]
  /\ loading = FALSE
  /\ cards = {}
  /\ removing = {}
  /\ refreshing = 0
  /\ appLoading = FALSE
  /\ weatherData = NoWeatherData
  /\ appForecast = <<>>
  /\ searches = <<>>
  /\ forecasts = <<>>
  /\ locating = 0
  /\ appHistory = {}
  /\ listing = 1

NextApp ==
  \/ \E city \in AppCities : handleSubmit(city)
  \/ getCurrentLocationClicked
  \/ positionFound
  \/ positionFailed
  \/ \E city \in AppCities : handleCityClick(city)
  \/ \E i \in 1..MaxSearches, answer \in UNION {WeatherAnswers(q) : q \in AppCities \cup {CurrentQuery}} :
       fetchWeatherSettled(i, answer)
  \/ \E j \in 1..MaxSearches, answer \in UNION {ForecastAnswers(c) : c \in AppCities} :
       fetchForecastSettled(j, answer)
  \/ \E answer \in HistoryListAnswers : fetchHistorySettled(answer)

SpecApp == InitApp /\ [][NextApp]_vars

(***************************************************************************)
(* SpecHandlers: every function the controller exports, called directly,   *)
(* two requests at a time.                                                 *)
(***************************************************************************)
NextHandlers ==
  \E r \in Reqs :
    \/ /\ served < MaxRequests
       /\ \/ getWeatherByCity(r, Pune, <<>>)
          \/ \E query \in RouteQueries : getCurrentLocation(r, query)
          \/ getForecast(r, Pune, <<>>)
          \/ getFavorites(r, <<>>)
          \/ addFavorite(r, Pune)
          \/ \E id \in {HexString(1), HexString(2)} : removeFavorite(r, id)
          \/ getSearchHistory(r, <<>>)
          \/ clearHistory(r)
          \/ clearAllData(r)
    \/ Resume(r)
    \/ \E ok \in BOOLEAN : clearAllDataHistoryDeleted(r, ok)
    \/ \E ok \in BOOLEAN : clearAllDataFavoritesDeleted(r, ok)
    \/ Finish(r)

SpecHandlers == Init /\ [][NextHandlers]_vars

(***************************************************************************)
(* SpecDocuments: the records built from upstream payloads of many shapes, *)
(* and the documents stored for them by a lookup and by addFavorite.       *)
(***************************************************************************)
\* Names the upstream may send: plain, padded with white space, and nothing
\* but white space.
NameInputs ==
  { Pune, <<" ", "P", "u", "n", "e", " ">>, <<" ", " ">> }

\* Payloads with every combination of a name, a description and an icon
\* code, the last two possibly empty, at temperature zero; the complete
\* payload and the one with nothing in it.
RecordPayloads ==
  { [ name    |-> n,
      main    |-> [temp |-> 0],
      weather |-> << [description |-> d, icon |-> i] >> ] :
      n \in NameInputs,
      d \in {<<"r", "a", "i", "n">>, <<>>}, i \in {<<"1", "0", "d">>, <<>>} }
  \cup Payloads

\* The upstream answers 200 with one of the payloads, or with the body null.
RecordAnswers == Resolved(RecordPayloads) \cup {NullBody}

NextDocuments ==
  \E r \in Reqs :
    \/ /\ served < MaxRequests
       /\ \/ getWeatherByCity(r, Pune, <<>>)
          \/ addFavorite(r, Pune)
    \/ \E answer \in RecordAnswers : getWeatherByCityFetched(r, answer)
    \/ getWeatherByCityInserted(r, TRUE)
    \/ addFavoriteChecked(r, TRUE)
    \/ \E answer \in RecordAnswers : addFavoriteFetched(r, answer)
    \/ addFavoriteInserted(r, TRUE)
    \/ Finish(r)

SpecDocuments == Init /\ [][NextDocuments]_vars

(***************************************************************************)
(* SpecRemove: removeFavorite and lookups by city, two requests at a time, *)
(* on a store that holds two favorites and one history entry.              *)
(***************************************************************************)
\* The document of a record built at time `at` from the complete payload
\* named city, stored as the n-th document.
StoredDocument(n, city, at) ==
  [_id |-> GenObjectId(n)] @@ toDocument(fromApiResponse([FullPayload EXCEPT !.name = city], at))

InitRemove ==
  /\ favorites = <<StoredDocument(1, Pune, -3), StoredDocument(2, <<"G", "o", "a">>, -2)>>
  /\ history = <<StoredDocument(3, Pune, -1)>>
  /\ nextId = 4
  /\ now = 0
  /\ served = 0
  /\ pc = [r \in Reqs |-> "idle"]
  /\ req = [r \in Reqs |-> NoReq]
  /\ local = [r \in Reqs |-> <<>>]
  /\ res = [r \in Reqs |-> NoRes]
  /\ calls = [r \in Reqs |-> <<>>]
  /\ NoPage

NextRemove ==
  \E r \in Reqs :
    \/ /\ served < MaxRequests + 1
       /\ \/ \E id \in IdInputs : removeFavorite(r, id)
          \/ getWeatherByCity(r, Pune, <<>>)
    \/ \E ok \in BOOLEAN : removeFavoriteLooked(r, ok)
    \/ \E ok \in BOOLEAN : removeFavoriteListed(r, ok)
    \/ \E ok \in BOOLEAN : removeFavoriteDeleted(r, ok)
    \/ \E answer \in HistoryAnswers : getWeatherByCityFetched(r, answer)
    \/ \E ok \in BOOLEAN : getWeatherByCityInserted(r, ok)
    \/ Finish(r)

SpecRemove == InitRemove /\ [][NextRemove]_vars

(***************************************************************************)
(* Properties.                                                             *)
(***************************************************************************)
Done(r) == pc[r] = "done"

Succeeded(r) == Done(r) /\ res[r].body.success

\* Request r takes a step of its handler.
Steps(r) == pc'[r] # pc[r]

\* A stored document without its identifier.
Stripped(d) == Restrict(d, DOMAIN d \ {"_id"})

\* C1: addFavorite called a second time with the city name of an earlier,
\* completed addFavorite whose (valid) favorite is still stored reports
\* "Already in favorites" and leaves the collection as it is, unless storage
\* fails.
C1_SecondAddReportsExists ==
  [][\A r1, r2 \in Reqs :
       ( /\ r1 # r2
         /\ req[r1].op = "addFavorite" /\ Succeeded(r1)
         /\ isValid(local[r1].model)
         /\ \E i \in DOMAIN favorites :
              Stripped(favorites[i]) = toDocument(local[r1].model)
         /\ req[r2].op = "addFavorite"
         /\ req[r2].body.city = req[r1].body.city
         /\ pc[r2] = "exists" /\ Steps(r2)
         /\ ~(Done(r2)' /\ res'[r2].status = 500) )
       => /\ Done(r2)'
          /\ res'[r2].body.message = "Already in favorites"
          /\ favorites' = favorites]_vars

\* C2: every document of the history and favorites collections carries a
\* city, a temperature, a description and an icon code (toDocument drops an
\* attribute exactly when the record written had it empty).
DocumentValid(d) ==
  /\ Has(d, "city") /\ Has(d, "temperature")
  /\ Has(d, "description") /\ Has(d, "icon")

C2_NoInvalidRecordPersisted ==
  /\ \A i \in DOMAIN history : DocumentValid(history[i])
  /\ \A i \in DOMAIN favorites : DocumentValid(favorites[i])

\* C3: removeFavorite with a malformed identifier answers 400 in the failure
\* envelope without having issued a storage call; with a well-formed
\* identifier of no stored favorite it issues no delete, leaves the
\* collection as it is and answers 404 once its two reads have succeeded.
C3_Malformed(r) ==
  ~ObjectIdIsValid(req[r].params.id) =>
     /\ Done(r)
     /\ res[r] = Failure(400, "Invalid favorite ID")
     /\ calls[r] = <<>>

C3_NotFound(r) ==
  (pc[r] = "listIds" \/ (Done(r) /\ calls[r] = <<"findOne", "find">>)) =>
     /\ ObjectIdIsValid(req[r].params.id)
     /\ Done(r) /\ ~Has(local[r], "error") => res[r] = Failure(404, "Favorite not found")

C3_RemoveFavoriteRejects ==
  /\ [](\A r \in Reqs : req[r].op = "removeFavorite" => C3_Malformed(r) /\ C3_NotFound(r))
  /\ [][\A r \in Reqs :
          (req[r].op = "removeFavorite" /\ pc[r] = "lookup" /\ Steps(r)
           /\ ~ExistsId(favorites, NewObjectId(req[r].params.id)))
          => /\ favorites' = favorites
             /\ pc'[r] = "listIds" \/ (Done(r)' /\ res'[r].status = 500)]_vars
  /\ [][\A r \in Reqs :
          (pc[r] = "listIds" /\ Steps(r)) => favorites' = favorites /\ Done(r)']_vars

C3_Witness ==
  /\ favorites # <<>>
  /\ \E r1, r2 \in Reqs :
       /\ req[r1].op = "removeFavorite" /\ Done(r1) /\ res[r1].status = 400
       /\ req[r2].op = "removeFavorite" /\ Done(r2) /\ res[r2].status = 404

\* The timestamps of s never rise (strict: always fall) from one entry to the next.
Descending(s, strict) ==
  \A i, j \in DOMAIN s :
    i < j => IF strict THEN s[i].timestamp > s[j].timestamp
             ELSE s[i].timestamp >= s[j].timestamp

Min(a, b) == IF a <= b THEN a ELSE b

\* What a successful getSearchHistory answers, when its find runs: `found`
\* are documents of the collection, as many as there are up to 10, none
\* older than a document left out, in descending order of timestamp, and
\* the response lists them in that order.
ListsNewest(r, strict) ==
  (pc[r] = "history" /\ Succeeded(r)') =>
    LET found == local'[r].history
        listed == res'[r].body.history
    IN /\ Len(found) = Min(10, Len(history))
       /\ Range(found) \subseteq Range(history)
       /\ \A i, j \in DOMAIN found : found[i]._id = found[j]._id => i = j
       /\ \A d \in Range(history) \ Range(found), f \in Range(found) :
            d.timestamp <= f.timestamp
       /\ Descending(found, strict)
       /\ Len(listed) = Len(found)
       /\ \A i \in DOMAIN found : listed[i].id = ObjectIdToString(found[i]._id)

\* C4 (as claimed): getSearchHistory returns at most 10 entries, the most
\* recent ones, ordered strictly by descending timestamp.
C4_StrictlyDescending == [][\A r \in Reqs : ListsNewest(r, TRUE)]_vars

\* C4 (amended): getSearchHistory returns at most 10 entries, the most recent
\* ones, in an order in which the timestamp never rises; entries of equal
\* timestamp come in no particular order.
C4_NewestTenDescending == [][\A r \in Reqs : ListsNewest(r, FALSE)]_vars

C4_Witness ==
  \E r \in Reqs :
    /\ req[r].op = "getSearchHistory" /\ Succeeded(r)
    /\ Len(res[r].body.history) = 10
    /\ Len(history) = 11
    /\ local[r].history[1].timestamp > local[r].history[2].timestamp
    /\ history[Len(history)]._id = local[r].history[1]._id

\* C5: a successful clearHistory leaves the history collection empty, the
\* collection changes only when a lookup's insert or a clear completes, and
\* a getSearchHistory whose find runs on the empty collection returns the
\* empty sequence.
C5_ClearThenListEmpty ==
  /\ [][\A r \in Reqs : (pc[r] = "clear" /\ Succeeded(r)') => history' = <<>>]_vars
  /\ [][history' # history =>
          \E r \in Reqs : pc[r] \in {"clear", "insert"} /\ Succeeded(r)']_vars
  /\ [][\A r \in Reqs :
          (pc[r] = "history" /\ history = <<>> /\ Succeeded(r)')
          => res'[r].body.history = <<>>]_vars

C5_Witness ==
  \E r1, r2 \in Reqs :
    /\ req[r1].op = "clearHistory" /\ Succeeded(r1) /\ res[r1].body.message[2] > 1
    /\ req[r2].op = "getSearchHistory" /\ Succeeded(r2)
    /\ res[r2].body.history = <<>>

\* C6: getForecast on an upstream list of n entries returns exactly the
\* entries at the indices i < min(n, 40) with i % 8 = 0, in that order: on a
\* 40-entry list the five entries at indices 0, 8, 16, 24, 32.
C6_ForecastEveryEighth ==
  \A r \in Reqs :
    (req[r].op = "getForecast" /\ Succeeded(r)) =>
      LET list == local[r].list
          n == Len(list)
          picked == {i \in 0..(n - 1) : i % 8 = 0 /\ i < Min(n, 40)}
          forecast == res[r].body.forecast
      IN /\ Len(forecast) = Cardinality(picked)
         /\ \A k \in DOMAIN forecast :
              /\ 8 * (k - 1) \in picked
              /\ forecast[k].temp = MathRound(list[8 * (k - 1) + 1].main.temp)
              /\ forecast[k].date = list[8 * (k - 1) + 1].dt \div SecondsPerDay
         /\ n = 40 => Len(forecast) = 5 /\ forecast[5].temp = 32

C6_Witness ==
  \E r1, r2 \in Reqs :
    /\ req[r1].op = "getForecast" /\ Succeeded(r1)
    /\ Len(local[r1].list) = 40 /\ Len(res[r1].body.forecast) = 5
    /\ req[r2].op = "getForecast" /\ Succeeded(r2)
    /\ Len(local[r2].list) = 41 /\ Len(res[r2].body.forecast) = 5

\* Handlers that call the upstream API.
UpstreamHandlers == {"getWeatherByCity", "getCurrentLocation", "getForecast", "addFavorite"}

\* C7: when the upstream call of a handler fails with an HTTP status, the
\* handler's response carries that status.
C7_UpstreamStatusCarried ==
  \A r \in Reqs :
    ( /\ req[r].op \in UpstreamHandlers /\ Done(r)
      /\ Has(local[r], "error") /\ Has(local[r].error, "response") )
    => res[r].status = local[r].error.response.status

\* C8: a failure delegated to handleError gets exactly this response: with
\* an upstream response, 401 'Invalid API key', 404 'Location/Resource not
\* found', 429 'Too many requests. Try again later', any other status passed
\* through with the upstream message (the exception's, if the upstream sent
\* none); with no upstream response, 500 with the exception's message.  The
\* body is {success: false, error: <message>}.
Translated(error) ==
  IF Has(error, "response")
  THEN IF error.response.status = 401 THEN <<401, "Invalid API key">>
       ELSE IF error.response.status = 404 THEN <<404, "Location/Resource not found">>
       ELSE IF error.response.status = 429
            THEN <<429, "Too many requests. Try again later">>
       ELSE <<error.response.status,
              IF Has(error.response.data, "message")
              THEN error.response.data.message ELSE error.message>>
  ELSE <<500, <<"Server Error: ", error.message>> >>

C8_ErrorTranslation ==
  \A r \in Reqs :
    (Done(r) /\ Has(local[r], "error") /\ req[r].op # "getForecast") =>
      /\ res[r].status = Translated(local[r].error)[1]
      /\ res[r].body = [success |-> FALSE, error |-> Translated(local[r].error)[2]]

C8_Witness ==
  \E r1, r2 \in Reqs :
    /\ Done(r1) /\ req[r1].op = "addFavorite" /\ Has(local[r1], "error")
    /\ res[r1] = Failure(503, "upstream message")
    /\ Done(r2) /\ req[r2].op = "clearHistory" /\ Has(local[r2], "error")
    /\ res[r2].status = 500

\* C9: every response is {success: true, ...} or {success: false, error: ...}.
C9_UniformEnvelope ==
  \A r \in Reqs :
    Done(r) => res[r].body.success \/ Has(res[r].body, "error")

\* C10: nothing but the existence check stands between an addFavorite and
\* its insert: once the check has passed, the insert (when upstream and
\* storage answer) adds a document and the request answers 'Added to
\* favorites', whatever the collection holds by then.
C10_InsertUnguarded ==
  [][\A r \in Reqs :
       (req[r].op = "addFavorite" /\ pc[r] = "insert" /\ Done(r)' /\ res'[r].status # 500)
       => /\ Len(favorites') = Len(favorites) + 1
          /\ Stripped(favorites'[Len(favorites')]) = toDocument(local[r].model)
          /\ res'[r] = Response(200, [success |-> TRUE, message |-> "Added to favorites"])]_vars

\* Two concurrent requests for "Pune" have both inserted it.
C10_Witness ==
  /\ Len(favorites) = 2
  /\ \A i \in DOMAIN favorites : Has(favorites[i], "city") /\ favorites[i].city = Pune
  /\ \A r \in Reqs :
       /\ req[r].op = "addFavorite" /\ req[r].body.city = Pune
       /\ Done(r) /\ res[r].body = [success |-> TRUE, message |-> "Added to favorites"]

\* The query value k is there and is a number from its first character to
\* its last (white space around it aside).
SpellsNumber(query, k) ==
  /\ Has(query, k)
  /\ ~isNaN(ParsePrefix(query[k]))
  /\ ParsePrefix(query[k]).consumed = Len(Trim(query[k]))

\* C11: a getCurrentLocation request whose lat or lon is missing or is not a
\* number (a number followed by other characters included) is answered 400
\* 'Coords required' without an upstream call or an insert having been issued.
C11_CoordinatesValidated ==
  \A r \in Reqs :
    ( /\ req[r].op = "getCurrentLocation"
      /\ ~(SpellsNumber(req[r].query, "lat") /\ SpellsNumber(req[r].query, "lon")) )
    => /\ Done(r)
       /\ res[r] = Failure(400, "Coords required")
       /\ calls[r] = <<>>

\* The two lookups: by city name and by coordinates.
Lookups == {"getWeatherByCity", "getCurrentLocation"}

\* C12: the step in which a lookup answers success: true is the one in which
\* its insertOne resolved, adding exactly one document, that of the record
\* looked up, to the history collection; the insert is the only storage call
\* the lookup has issued; and a lookup whose insertOne is rejected answers
\* with success: false.
C12_LookupInsertsOnce ==
  /\ [][\A r \in Reqs :
          (req[r].op \in Lookups /\ ~Done(r) /\ Succeeded(r)')
          => /\ pc[r] = "insert"
             /\ Len(history') = Len(history) + 1
             /\ SubSeq(history', 1, Len(history)) = history
             /\ Stripped(history'[Len(history')]) = toDocument(local[r].weatherModel)
             /\ calls'[r] = <<"axios.get", "insertOne">>]_vars
  /\ [][\A r \in Reqs :
          (req[r].op \in Lookups /\ pc[r] = "insert" /\ Steps(r) /\ history' = history)
          => Done(r)' /\ ~res'[r].body.success]_vars

C12_Witness ==
  \E r1, r2 \in Reqs :
    /\ req[r1].op = "getCurrentLocation" /\ Succeeded(r1)
    /\ req[r2].op = "getWeatherByCity" /\ Done(r2)
    /\ calls[r2] = <<"axios.get", "insertOne">>
    /\ res[r2] = Failure(500, <<"Server Error: ", StorageError.message>>)
    /\ Len(history) = 1

\* The specific routes, and the path segments they reserve.
SpecificRoutes ==
  {s \in Range(Routes) : \E i \in DOMAIN s.path : Has(s.path[i], "literal")}

ReservedSegments == {HistorySegment, FavoritesSegment, CurrentSegment}

\* C13: a request that matches a specific route is handed to that route's
\* handler; getWeatherByCity gets exactly the GET requests of one segment
\* that match no specific route, with that segment as the city; so
\* 'history', 'favorites' and 'current' are never looked up as cities.
C13_SpecificRoutesFirst ==
  /\ [][\A r \in Reqs, method \in Methods, path \in PathInputs,
           query \in RouteQueries, body \in RouteBodies :
          (pc[r] = "idle" /\ pc'[r] # "idle" /\ Dispatch(r, method, path, query, body)) =>
            /\ \A s \in SpecificRoutes :
                 MatchRoute(s, method, path) => req'[r].op = s.handler
            /\ req'[r].op = "getWeatherByCity" <=>
                 /\ method = "GET" /\ Len(path) = 1 /\ path[1] # <<>>
                 /\ \A s \in SpecificRoutes : ~MatchRoute(s, method, path)
            /\ req'[r].op = "getWeatherByCity" => req'[r].params.city = path[1]]_vars
  /\ [](\A r \in Reqs :
          req[r].op = "getWeatherByCity" =>
            ToLower(req[r].params.city) \notin ReservedSegments)

C13_Witness ==
  \E r1, r2 \in Reqs :
    /\ req[r1].op = "getForecast" /\ req[r1].params.city = HistorySegment
    /\ req[r2].op = "getWeatherByCity" /\ req[r2].params.city = ForecastSegment
    /\ history # <<>>

\* C14: when addFavorite requests run one after the other, no two stored
\* favorites carry the same city.
C14_NoDuplicateCity ==
  \A i, j \in DOMAIN favorites :
    (i # j /\ Has(favorites[i], "city") /\ Has(favorites[j], "city"))
    => favorites[i].city # favorites[j].city

\* C15: a step either leaves every history entry where it is (adding
\* entries behind them at most), or it is the step of a clearHistory whose
\* deleteMany resolved, which leaves no entry at all.
C15_HistoryRemovedOnlyByClear ==
  [][\/ /\ Len(history') >= Len(history)
        /\ SubSeq(history', 1, Len(history)) = history
     \/ \E r \in Reqs :
          /\ req[r].op = "clearHistory" /\ pc[r] = "clear" /\ Succeeded(r)'
          /\ history' = <<>>]_vars

\* A clearHistory has removed two entries at once.
C15_Witness ==
  \E r \in Reqs :
    /\ req[r].op = "clearHistory" /\ Succeeded(r)
    /\ res[r].body.message[2] = 2
    /\ history = <<>>

\* Request r is in its handler, suspended at an await.
Awaiting(r) == pc[r] \notin {"idle", "done"}

\* C16: a request has a response exactly when its handler has ended; a
\* response, once sent, is not replaced; a suspended handler has a call
\* outstanding, and when the call returns it either answers or issues a
\* call it has not issued before (no retry); every request whose calls
\* return is answered; and whatever was answered before, failures
\* included, a request that arrives at a free slot is accepted.
C16_ExactlyOneResponse ==
  /\ [](\A r \in Reqs :
          /\ Done(r) <=> res[r] # NoRes
          /\ Awaiting(r) => calls[r] # <<>>
          /\ \A i, j \in DOMAIN calls[r] : calls[r][i] = calls[r][j] => i = j)
  /\ [][\A r \in Reqs :
          res'[r] # res[r] =>
            \/ res[r] = NoRes /\ ~Done(r) /\ Done(r)'
            \/ Done(r) /\ pc'[r] = "idle" /\ res'[r] = NoRes]_vars
  /\ [][\A r \in Reqs :
          (Awaiting(r) /\ Steps(r)) =>
            \/ Done(r)' /\ calls'[r] = calls[r]
            \/ Awaiting(r)' /\ Len(calls'[r]) = Len(calls[r]) + 1]_vars
  /\ \A r \in Reqs : Awaiting(r) ~> Done(r)
  /\ []((served < MaxRequests /\ pc["r1"] = "idle") => ENABLED Arrive("r1"))

\* A request has been answered with a failure and another, in the same
\* process, with success.
C16_Witness ==
  \E r1, r2 \in Reqs :
    /\ req[r1].op = "removeFavorite" /\ Done(r1) /\ res[r1].status = 500
    /\ req[r2].op = "getWeatherByCity" /\ Succeeded(r2)

\* C17: in the favorites list, the heart button of a card is disabled, and
\* shows the loading label, exactly while the removal of that card's
\* favorite is in flight.
C17_LoadingPerItem ==
  \A id \in cards :
    /\ HeartDisabled(id) <=> id \in removing
    /\ HeartLabel(id) = "hourglass" <=> id \in removing

\* C18: the display object of a lookup with units=metric carries the
\* temperature as an integer, a getSearchHistory renders the history entry
\* of that lookup with the same integer followed by '°C', and
\* getSearchHistory renders '°F' exactly when its unit system is imperial.
C18_HistoryRendersLookupUnits ==
  [][\A r1, r2 \in Reqs :
       ( /\ req[r1].op \in Lookups /\ Succeeded(r1) /\ local[r1].units = "metric"
         /\ req[r2].op = "getSearchHistory" /\ pc[r2] = "history" /\ Succeeded(r2)' )
       => /\ res[r1].body.data.temperature \in Int
          /\ \A i \in DOMAIN local'[r2].history :
               /\ Stripped(local'[r2].history[i]) = toDocument(local[r1].weatherModel)
                    => res'[r2].body.history[i].temperature =
                         <<res[r1].body.data.temperature, "°C">>
               /\ res'[r2].body.history[i].temperature[2] = "°F"
                    <=> local[r2].units = "imperial"]_vars

\* Calls that change a collection, and the call to the upstream API.
Mutations == {"insertOne", "deleteOne", "deleteMany"}

Count(log, kinds) == Cardinality({i \in DOMAIN log : log[i] \in kinds})

\* C19 (as claimed): every handler issues at most one upstream call and at
\* most one storage mutation per request.
C19_OneCallOneMutation ==
  \A r \in Reqs :
    /\ Count(calls[r], {"axios.get"}) <= 1
    /\ Count(calls[r], Mutations) <= 1

\* C19 (amended): every routed handler issues at most one upstream call and
\* at most one storage mutation per request; clearAllData, which is on no
\* route, issues no upstream call and up to two storage mutations, the
\* second only after the first has resolved.
C19_RoutedOneCallOneMutation ==
  \A r \in Reqs :
    /\ Count(calls[r], {"axios.get"}) <= 1
    /\ req[r].op # "clearAllData" => Count(calls[r], Mutations) <= 1
    /\ req[r].op = "clearAllData" =>
         /\ Count(calls[r], {"axios.get"}) = 0
         /\ Count(calls[r], Mutations) <= 2
         /\ Len(calls[r]) = 2 => Has(local[r], "searchHistoryResult")
    /\ req[r].op \in {Routes[i].handler : i \in DOMAIN Routes} \cup {"clearAllData", "none"}

\* An addFavorite has made its upstream call and its insert, and a
\* clearAllData both its deletes.
C19_Witness ==
  \E r1, r2 \in Reqs :
    /\ req[r1].op = "addFavorite" /\ Succeeded(r1)
    /\ calls[r1] = <<"findOne", "axios.get", "insertOne">>
    /\ req[r2].op = "clearAllData" /\ Succeeded(r2)
    /\ calls[r2] = <<"deleteMany", "deleteMany">>
    /\ res[r2].body.deleted.favorites = 1

\* The keys toDocument lists.
DocumentKeys ==
  {"city", "country", "temperature", "description", "icon",
   "humidity", "windSpeed", "pressure", "timestamp"}

\* Document d has only listed keys, and none of them holds ''.  (The
\* constructor defaults every attribute, so none holds null or undefined.)
NoEmptyValue(d) ==
  /\ DOMAIN d \subseteq DocumentKeys
  /\ \A k \in DOMAIN d \cap StringKeys : d[k] # <<>>
  /\ \A k \in DOMAIN d \ StringKeys : d[k] \in Int

\* C20: the document toDocument produces for a weather record, and every
\* document stored from one, has no key whose value is empty.
C20_NoEmptyValueInDocument ==
  /\ \A r \in Reqs :
       /\ Has(local[r], "weatherModel") => NoEmptyValue(toDocument(local[r].weatherModel))
       /\ Has(local[r], "model") => NoEmptyValue(toDocument(local[r].model))
  /\ \A i \in DOMAIN history : NoEmptyValue(Stripped(history[i]))
  /\ \A i \in DOMAIN favorites : NoEmptyValue(Stripped(favorites[i]))

\* A record whose city is nothing but white space has been stored without
\* a city, and one with a padded city under the trimmed name.
C20_Witness ==
  /\ \E r \in Reqs :
       /\ Has(local[r], "weatherModel") /\ local[r].weatherModel.city = <<" ", " ">>
       /\ Succeeded(r)
       /\ \E i \in DOMAIN history : ~Has(history[i], "city") /\ Has(history[i], "icon")
  /\ \E r \in Reqs :
       /\ Has(local[r], "model") /\ local[r].model.city = <<" ", "P", "u", "n", "e", " ">>
       /\ Succeeded(r)
       /\ \E i \in DOMAIN favorites : Has(favorites[i], "city") /\ favorites[i].city = Pune

\* The attributes of a record that are numbers.
NumericKeys == {"temperature", "feelsLike", "humidity", "windSpeed", "pressure"}

\* Document d keeps every attribute of record m that is not the empty
\* string (the city trimmed), the numeric ones whatever their value.
KeepsAttributes(m, d) ==
  /\ \A k \in DOMAIN m \cap StringKeys :
       m[k] # <<>> /\ (k = "city" => Trim(m[k]) # <<>>) =>
         Has(d, k) /\ d[k] = IF k = "city" THEN Trim(m[k]) ELSE m[k]
  /\ \A k \in DOMAIN m \ StringKeys : Has(d, k) /\ d[k] = m[k]
  /\ NumericKeys \subseteq DOMAIN m

\* C21: toDocument keeps every attribute of the record whose value is not
\* undefined, null or '': every numeric attribute (temperature, feelsLike,
\* humidity, windSpeed, pressure) is in the document, also when it is 0.
C21_KeepsEveryAttribute ==
  \A r \in Reqs :
    /\ Has(local[r], "weatherModel") =>
         KeepsAttributes(local[r].weatherModel, toDocument(local[r].weatherModel))
    /\ Has(local[r], "model") =>
         KeepsAttributes(local[r].model, toDocument(local[r].model))


\* The record request r built from the payload of its upstream response.
Built(r) ==
  IF Has(local[r], "weatherModel") THEN local[r].weatherModel ELSE local[r].model

\* Record m has the defaults for what payload apiData lacks, and the
\* (rounded) values of what it has.
Defaulted(apiData, m) ==
  LET main == IF Has(apiData, "main") THEN apiData.main ELSE <<>>
      wind == IF Has(apiData, "wind") THEN apiData.wind ELSE <<>>
      first == IF Has(apiData, "weather") /\ apiData.weather # <<>>
               THEN apiData.weather[1] ELSE <<>>
  IN /\ m.temperature = IF Has(main, "temp") THEN MathRound(main.temp) ELSE 0
     /\ m.feelsLike = IF Has(main, "feels_like") THEN MathRound(main.feels_like) ELSE 0
     /\ m.humidity = IF Has(main, "humidity") THEN main.humidity ELSE 0
     /\ m.pressure = IF Has(main, "pressure") THEN main.pressure ELSE 0
     /\ m.windSpeed = IF Has(wind, "speed") THEN wind.speed ELSE 0
     /\ m.description = IF Has(first, "description") THEN first.description ELSE <<>>
     /\ m.icon = IF Has(first, "icon") THEN first.icon ELSE <<>>

\* C22: for every payload object the upstream resolves with, fromApiResponse
\* returns a record and does not raise: the handler goes on to its insert
\* and the record has 0 for each numeric field the payload lacks and '' for
\* a missing description or icon.
C22_FromApiResponseTotal ==
  \A r \in Reqs :
    (Has(local[r], "response") /\ Has(local[r].response, "data")) =>
      /\ ~Has(local[r], "error") \/ local[r].error # TypeError
      /\ Has(local[r], "weatherModel") \/ Has(local[r], "model")
      /\ Defaulted(local[r].response.data, Built(r))

\* A record was built from the payload with nothing in it, and another
\* request's upstream call resolved with a null body, which raised.
C22_Witness ==
  \E r, q \in Reqs :
    /\ Has(local[r], "response") /\ Has(local[r].response, "data")
    /\ local[r].response.data = BarePayload
    /\ pc[r] = "insert"
    /\ Built(r).temperature = 0 /\ Built(r).description = <<>>
    /\ Has(local[q], "response") /\ ~Has(local[q].response, "data")
    /\ Done(q) /\ local[q].error = TypeError


\* The lookups that have answered success: true and are still recorded.
DoneLookups == {r \in Reqs : req[r].op \in Lookups /\ Succeeded(r)}

\* The document of the record lookup r built.
DocumentOf(r) == toDocument(local[r].weatherModel)

\* Requests take their slots in turn: the n-th request issued since the
\* start is in the n-th slot as long as no slot has been used twice.
IssueIndex(r) == IF r = "r1" THEN 1 ELSE 2

\* C23 (as claimed): the entries that k successful lookups leave in the
\* history, identifiers included, are the same in every interleaving: those
\* of the lookups in the order they were issued.
C23_EntriesIndependentOfInterleaving ==
  served = Cardinality(DoneLookups) =>
    /\ Len(history) = served
    /\ Range(history) =
         {[_id |-> GenObjectId(IssueIndex(r))] @@ DocumentOf(r) : r \in DoneLookups}

\* C23 (amended): when k lookups, and nothing else, have been served and
\* have succeeded, the history has gained exactly k entries, and without
\* their identifiers they are the documents of the records the lookups
\* built, each as often as it was built; a request's locals, its record
\* among them, change only in its own steps.
C23_InsertsIndependent ==
  /\ [](served = Cardinality(DoneLookups) =>
          /\ Len(history) = served
          /\ \A i \in DOMAIN history : \E r \in DoneLookups :
               Stripped(history[i]) = DocumentOf(r)
          /\ \A r \in DoneLookups :
               Cardinality({i \in DOMAIN history : Stripped(history[i]) = DocumentOf(r)})
                 = Cardinality({q \in DoneLookups : DocumentOf(q) = DocumentOf(r)}))
  /\ [][\A r \in Reqs : local'[r] # local[r] => Steps(r)]_vars

\* Two lookups that built different records have both succeeded, and the
\* one issued second was the first to insert.
C23_Witness ==
  /\ DoneLookups = Reqs /\ served = 2
  /\ DocumentOf("r1") # DocumentOf("r2")
  /\ Stripped(history[1]) = DocumentOf("r2")
  /\ Stripped(history[2]) = DocumentOf("r1")

\* The same two lookups, having inserted in the order they were issued.
C23_InOrder ==
  /\ DoneLookups = Reqs /\ served = 2
  /\ DocumentOf("r1") # DocumentOf("r2")
  /\ Stripped(history[1]) = DocumentOf("r1")


Fetching == Lookups \cup {"addFavorite"}

\* The upstream call of request r has returned successfully.
Fetched(r) == Has(local[r], "response") /\ Has(local[r].response, "data")

\* C25: a lookupByCity, lookupByCoordinates or addFavorite request whose
\* upstream call fails ends there, with no mutation issued and both
\* collections as they were; such a request issues its insert, and changes
\* a collection, only after its upstream call has returned successfully.
C25_NoMutationOnUpstreamFailure ==
  /\ [](\A r \in Reqs :
          req[r].op \in Fetching =>
            /\ Count(calls[r], Mutations) > 0 => Fetched(r)
            /\ (Has(local[r], "error") /\ local[r].error \in UpstreamErrors) =>
                 Done(r) /\ Count(calls[r], Mutations) = 0)
  /\ [][\A r \in Reqs :
          (req[r].op \in Fetching /\ Steps(r) /\ store' # store) =>
            pc[r] = "insert" /\ Fetched(r)]_vars
  /\ [][\A r \in Reqs :
          (req[r].op \in Fetching /\ pc[r] = "weather" /\ Steps(r) /\ ~Fetched(r)') =>
            /\ store' = store
            /\ Done(r)' /\ ~res'[r].body.success
            /\ Count(calls'[r], Mutations) = 0]_vars

\* The upstream call of an addFavorite and that of a lookup by coordinates
\* have failed; nothing is stored.
C25_Witness ==
  \E r, q \in Reqs :
    /\ req[r].op = "addFavorite" /\ Done(r)
    /\ Has(local[r], "error") /\ local[r].error = NetworkError
    /\ req[q].op = "getCurrentLocation" /\ Done(q)
    /\ Has(local[q], "error") /\ local[q].error \in UpstreamErrors
    /\ favorites = <<>> /\ history = <<>>


\* C26: an entry that getSearchHistory returns carries the unit glyph of
\* the unit system of the lookup that stored its value: the entry of a
\* lookup with units=imperial is never rendered with '°C', that of a lookup
\* with units=metric never with '°F'.  (Two requests have been served: the
\* lookup and the listing.)
C26_GlyphOfStoringLookup ==
  \A r1, r2 \in Reqs :
    ( /\ served = 2
      /\ req[r1].op \in Lookups /\ Succeeded(r1)
      /\ req[r2].op = "getSearchHistory" /\ Succeeded(r2) ) =>
      \A i \in DOMAIN res[r2].body.history :
        LET glyph == res[r2].body.history[i].temperature[2]
        IN /\ local[r1].units = "imperial" => glyph # "°C"
           /\ local[r1].units = "metric" => glyph # "°F"

\* An imperial lookup's entry has been listed.
C26_Listed ==
  \E r1, r2 \in Reqs :
    /\ served = 2
    /\ req[r1].op \in Lookups /\ Succeeded(r1) /\ local[r1].units = "imperial"
    /\ req[r2].op = "getSearchHistory" /\ Succeeded(r2)
    /\ Len(res[r2].body.history) = 1
    /\ res[r2].body.history[1].temperature[2] = "°F"


\* C27: removeFavorite answers 'Removed favorite' only in a step in which
\* its own delete removes a document; of two requests to remove the same
\* favorite at most one answers success.
C27_SuccessOnlyIfDeleted ==
  /\ [][\A r \in Reqs :
          (req[r].op = "removeFavorite" /\ ~Done(r) /\ Succeeded(r)') =>
            Len(favorites') = Len(favorites) - 1]_vars
  /\ [](\A r1, r2 \in Reqs :
          ( /\ r1 # r2
            /\ req[r1].op = "removeFavorite" /\ req[r2].op = "removeFavorite"
            /\ req[r1].params.id = req[r2].params.id ) =>
            ~(Succeeded(r1) /\ Succeeded(r2)))

\* Of two requests to remove the same favorite one has answered success
\* and the other 404.
C27_OneSucceeds ==
  \E r1, r2 \in Reqs :
    /\ req[r1].op = "removeFavorite" /\ req[r2].op = "removeFavorite"
    /\ req[r1].params.id = req[r2].params.id
    /\ Succeeded(r1)
    /\ Done(r2) /\ res[r2] = Failure(404, "Favorite not found")


\* The fetchWeather calls in flight.
InFlight == {i \in DOMAIN searches : searches[i].at = "fetch"}

\* C28: the App's loading flag is true whenever a fetchWeather call is in
\* flight.
C28_LoadingWhileInFlight == InFlight # {} => appLoading


\* The fetchWeather calls that got a successful answer.
Answered == {i \in DOMAIN searches : searches[i].at = "done" /\ Successful(searches[i].answer)}

\* C29: once no fetchWeather call is in flight, the weather shown is the
\* result of the most recently issued search that succeeded; the response
\* of an earlier search does not replace that of a later one.
C29_LatestSearchShown ==
  (InFlight = {} /\ Answered # {}) =>
    LET latest == CHOOSE i \in Answered : \A j \in Answered : j <= i
    IN weatherData = searches[latest].answer.data

\* Two searches have succeeded and the weather of the later one is shown.
C29_LatestShown ==
  /\ InFlight = {} /\ Cardinality(Answered) = 2
  /\ searches[1].answer.data # searches[2].answer.data
  /\ weatherData = searches[2].answer.data

\* C30: whenever no request is in flight and a forecast is shown together
\* with the weather, the forecast is that of the city whose weather is
\* shown, also after a search whose forecast fetch failed.
C30_ForecastOfShownCity ==
  ( /\ InFlight = {} /\ forecasts = <<>> /\ listing = 0 /\ locating = 0
    /\ appForecast # <<>>
    /\ weatherData # NoWeatherData ) =>
    /\ weatherData.city \in AppCities
    /\ appForecast = ForecastOf(weatherData.city)

\* The weather of a city is shown with its forecast, nothing in flight.
C30_ForecastShown ==
  /\ InFlight = {} /\ forecasts = <<>> /\ listing = 0 /\ locating = 0
  /\ weatherData # NoWeatherData /\ weatherData.city = Goa
  /\ appForecast = ForecastOf(Goa)
  /\ ForecastOf(Goa) # ForecastOf(Pune)

====
